---------------------------- MODULE Spec2Model ----------------------------
(***************************************************************************)
(* Model of the in-browser sales-prediction core of sales_prediction:      *)
(* src/frontend/src/lib/model.ts (the model cache `model`, initModel, the  *)
(* metrics backfill, the OLS fit and the predict/get functions).           *)
(*                                                                         *)
(* JavaScript numbers are modelled as exact rationals extended with NaN    *)
(* and +/-Infinity; IEEE rounding and the sign of zero are not modelled.   *)
(***************************************************************************)
EXTENDS Integers, Sequences, FiniteSets, TLC

(***************************************************************************)
(* JavaScript numbers                                                      *)
(***************************************************************************)
Abs(i) == IF i < 0 THEN -i ELSE i

Sign(i) == IF i < 0 THEN -1 ELSE IF i = 0 THEN 0 ELSE 1

RECURSIVE GCD(_, _)
GCD(a, b) == IF b = 0 THEN a ELSE GCD(b, a % b)

\* the rational n/d (d # 0) in lowest terms with a positive denominator
Rat(n, d) ==
    LET g == GCD(Abs(n), Abs(d))
        s == IF d < 0 THEN -1 ELSE 1
    IN  [k |-> "num", n |-> (s * n) \div g, d |-> (s * d) \div g]

\* (n1 / d1) * (n2 / d2), the common factors taken out before multiplying
RatMul(n1, d1, n2, d2) ==
    LET g1 == GCD(Abs(n1), Abs(d2))
        g2 == GCD(Abs(n2), Abs(d1))
    IN  IF n1 = 0 \/ n2 = 0 THEN Rat(0, 1)
        ELSE Rat((n1 \div g1) * (n2 \div g2), (d1 \div g2) * (d2 \div g1))

\* the integer i
Num(i) == [k |-> "num", n |-> i, d |-> 1]

NaN == [k |-> "nan", n |-> 0, d |-> 1]

\* +Infinity (s = 1) or -Infinity (s = -1)
Inf(s) == [k |-> "inf", n |-> s, d |-> 1]

IsNaN(x) == x.k = "nan"

IsFinite(x) == x.k = "num"

\* a + b (the CASE leaves the sum with an irrational square root undefined)
NumAdd(a, b) ==
    IF IsNaN(a) \/ IsNaN(b) THEN NaN
    ELSE IF a.k = "inf" /\ b.k = "inf" THEN (IF a.n = b.n THEN a ELSE NaN)
    ELSE IF a.k = "inf" THEN a
    ELSE IF b.k = "inf" THEN b
    ELSE CASE a.k = "num" /\ b.k = "num" ->
              LET g == GCD(a.d, b.d)
              IN  Rat(a.n * (b.d \div g) + b.n * (a.d \div g), (a.d \div g) * b.d)

\* -a
NumNeg(a) == IF IsNaN(a) THEN NaN ELSE [a EXCEPT !.n = -a.n]

\* a - b
NumSub(a, b) == NumAdd(a, NumNeg(b))

\* c * s for a finite rational c and an irrational square root s (k = "surd":
\* the value Sign(n) * sqrt(|n| / d), |n| / d in lowest terms and no square)
SurdScale(s, c) ==
    IF c.n = 0 THEN Num(0)
    ELSE [Rat(Sign(c.n) * s.n * c.n * c.n, s.d * c.d * c.d) EXCEPT !.k = "surd"]

\* a * b (a sum or product of two irrational square roots is not modelled)
NumMul(a, b) ==
    IF IsNaN(a) \/ IsNaN(b) THEN NaN
    ELSE IF a.k = "inf" \/ b.k = "inf"
         THEN (IF a.n = 0 \/ b.n = 0 THEN NaN ELSE Inf(Sign(a.n) * Sign(b.n)))
    ELSE IF a.k = "surd" /\ b.k = "num" THEN SurdScale(a, b)
    ELSE IF b.k = "surd" /\ a.k = "num" THEN SurdScale(b, a)
    ELSE CASE a.k = "num" /\ b.k = "num" -> RatMul(a.n, a.d, b.n, b.d)

\* a / b: x/0 is +/-Infinity, 0/0 and Infinity/Infinity are NaN
NumDiv(a, b) ==
    IF IsNaN(a) \/ IsNaN(b) THEN NaN
    ELSE IF a.k = "inf" THEN (IF b.k = "inf" THEN NaN
                              ELSE Inf(a.n * (IF b.n < 0 THEN -1 ELSE 1)))
    ELSE IF b.k = "inf" THEN Num(0)
    ELSE IF b.n = 0 THEN (IF a.n = 0 THEN NaN ELSE Inf(Sign(a.n)))
    ELSE IF a.k = "surd" /\ b.k = "num" THEN SurdScale(a, Rat(b.d, b.n))
    ELSE CASE a.k = "num" /\ b.k = "num" -> RatMul(a.n, a.d, b.d, b.n)

\* Math.abs(a)
NumAbs(a) == IF IsNaN(a) THEN NaN ELSE [a EXCEPT !.n = Abs(a.n)]

RECURSIVE NewtonSqrt(_, _)
NewtonSqrt(m, x) ==
    LET y == (x + m \div x) \div 2
    IN  IF y >= x THEN x ELSE NewtonSqrt(m, y)

\* the integer part of the square root of m >= 0
ISqrt(m) == IF m = 0 THEN 0 ELSE NewtonSqrt(m, m)

\* Math.sqrt(a): exact on squares of rationals, a "surd" value otherwise
NumSqrt(a) ==
    IF IsNaN(a) THEN NaN
    ELSE IF a.k = "inf" THEN (IF a.n > 0 THEN a ELSE NaN)
    ELSE IF a.n < 0 THEN NaN
    ELSE LET rn == ISqrt(a.n)
             rd == ISqrt(a.d)
         IN  IF rn * rn = a.n /\ rd * rd = a.d THEN Rat(rn, rd)
             ELSE [a EXCEPT !.k = "surd"]

\* a < b (false when either is NaN)
NumLt(a, b) ==
    IF IsNaN(a) \/ IsNaN(b) THEN FALSE
    ELSE IF a.k = "inf" THEN a.n = -1 /\ ~(b.k = "inf" /\ b.n = -1)
    ELSE IF b.k = "inf" THEN b.n = 1
    ELSE CASE a.k = "num" /\ b.k = "num" -> a.n * b.d < b.n * a.d

\* a > b
NumGt(a, b) == NumLt(b, a)

\* a === b on numbers: NaN equals nothing, itself included
NumEq(a, b) == ~IsNaN(a) /\ ~IsNaN(b) /\ a = b

(***************************************************************************)
(* JSON values as the artifact parser (Response.json) delivers them        *)
(***************************************************************************)
JUndef == [t |-> "undefined", num |-> NaN, str |-> "", b |-> FALSE]

JNull == [t |-> "null", num |-> NaN, str |-> "", b |-> FALSE]

JNum(x) == [t |-> "number", num |-> x, str |-> "", b |-> FALSE]

JStr(s) == [t |-> "string", num |-> NaN, str |-> s, b |-> FALSE]

JBool(v) == [t |-> "boolean", num |-> NaN, str |-> "", b |-> v]

\* Number(s) for the string literals that occur in the modelled documents
StringToNumber(s) ==
    CASE s = "" -> Num(0)
      [] s = "2" -> Num(2)
      [] s = "Infinity" -> Inf(1)
      [] OTHER -> NaN

\* Number(v)
ToNumber(v) ==
    CASE v.t = "undefined" -> NaN
      [] v.t = "null" -> Num(0)
      [] v.t = "boolean" -> (IF v.b THEN Num(1) ELSE Num(0))
      [] v.t = "number" -> v.num
      [] v.t = "string" -> StringToNumber(v.str)

\* the truthiness of v, as `if (v)` tests it
Truthy(v) ==
    CASE v.t = "undefined" -> FALSE
      [] v.t = "null" -> FALSE
      [] v.t = "boolean" -> v.b
      [] v.t = "number" -> ~IsNaN(v.num) /\ v.num.n # 0
      [] v.t = "string" -> v.str # ""

\* a ?? b
Coalesce(a, b) == IF a.t \in {"undefined", "null"} THEN b ELSE a

\* arr[i] (i counted from 0) of an array value: undefined past its end
Index(arr, i) == IF i + 1 <= Len(arr.a) THEN arr.a[i + 1] ELSE JUndef

\* an array-valued field: absent, null, or an array of values
JArrUndef == [t |-> "undefined", a |-> <<>>]

JArrNull == [t |-> "null", a |-> <<>>]

JArr(s) == [t |-> "array", a |-> s]

(***************************************************************************)
(* The artifact /model-coefs.json and its adoption (initModel, artifact    *)
(* branch)                                                                 *)
(***************************************************************************)
\* a `linear` section no payload has, and one with every field absent
NoLinear ==
    [t |-> "undefined", r2 |-> JUndef, rmse |-> JUndef, mae |-> JUndef,
     rel_rmse_pct |-> JUndef, precision |-> JUndef, recall |-> JUndef, f1 |-> JUndef]

EmptyLinear == [NoLinear EXCEPT !.t = "object"]

\* json.metrics: absent, or an object with every field absent
NoMetricsRaw ==
    [t |-> "undefined", linear |-> NoLinear,
     r2 |-> JUndef, rmse |-> JUndef, mae |-> JUndef,
     mean_sales |-> JUndef, mean_sales_test |-> JUndef, meanSales |-> JUndef,
     rel_rmse_pct |-> JUndef, precision |-> JUndef, recall |-> JUndef, f1 |-> JUndef]

EmptyMetricsRaw == [NoMetricsRaw EXCEPT !.t = "object"]

\* Model.metrics as the module stores it; a property the record lacks is JUndef
Metrics(r2, rmse, mae, meanSales, rel, precision, recall, f1) ==
    [r2 |-> r2, rmse |-> rmse, mae |-> mae, meanSales |-> meanSales,
     rel_rmse_pct |-> rel, precision |-> precision, recall |-> recall, f1 |-> f1]

\* the nested branch of the metrics normalisation
NormalizeNested(raw) ==
    Metrics(Coalesce(raw.linear.r2, JNull),
            Coalesce(raw.linear.rmse, JNull),
            Coalesce(raw.linear.mae, JNull),
            Coalesce(raw.mean_sales, Coalesce(raw.mean_sales_test, Coalesce(raw.meanSales, JNull))),
            Coalesce(raw.linear.rel_rmse_pct, Coalesce(raw.linear.rel_rmse_pct, Coalesce(raw.rel_rmse_pct, JNull))),
            Coalesce(raw.linear.precision, Coalesce(raw.precision, JNull)),
            Coalesce(raw.linear.recall, Coalesce(raw.recall, JNull)),
            Coalesce(raw.linear.f1, Coalesce(raw.f1, JNull)))

\* a flat branch that leaves the classification scores out
NormalizeFlatWithoutScores(raw) ==
    Metrics(Coalesce(raw.r2, JNull),
            Coalesce(raw.rmse, JNull),
            Coalesce(raw.mae, JNull),
            Coalesce(raw.mean_sales, Coalesce(raw.mean_sales_test, Coalesce(raw.meanSales, JNull))),
            Coalesce(raw.rel_rmse_pct, Coalesce(raw.rel_rmse_pct, JNull)),
            JNull, JNull, JNull)

\* the flat branch of the metrics normalisation
NormalizeFlat(raw) ==
    Metrics(Coalesce(raw.r2, JNull),
            Coalesce(raw.rmse, JNull),
            Coalesce(raw.mae, JNull),
            Coalesce(raw.mean_sales, Coalesce(raw.mean_sales_test, Coalesce(raw.meanSales, JNull))),
            Coalesce(raw.rel_rmse_pct, Coalesce(raw.rel_rmse_pct, JNull)),
            Coalesce(raw.precision, JNull),
            Coalesce(raw.recall, JNull),
            Coalesce(raw.f1, JNull))

\* normalizedMetrics: <<>> is undefined, <<m>> the normalised record m
NormalizeMetrics(raw) ==
    IF raw.t # "object" THEN <<>>
    ELSE IF raw.linear.t = "object" THEN <<NormalizeNested(raw)>>
    ELSE <<NormalizeFlat(raw)>>

\* a parsed artifact document: `isNull` is the JSON text `null`
Artifact(removed, intercept, betas, channelShares, metrics) ==
    [isNull |-> FALSE, removed |-> removed, intercept |-> intercept,
     betas |-> betas, channelShares |-> channelShares, metrics |-> metrics]

\* the Model object literal built from the artifact
ArtifactObject(json) ==
    [intercept |-> ToNumber(json.intercept),
     betas |-> <<ToNumber(Index(json.betas, 0)), ToNumber(Index(json.betas, 1)),
                 ToNumber(Index(json.betas, 2))>>,
     channelShares |-> <<ToNumber(Index(json.channelShares, 0)),
                         ToNumber(Index(json.channelShares, 1)),
                         ToNumber(Index(json.channelShares, 2))>>,
     metrics |-> NormalizeMetrics(json.metrics)]

\* an artifact branch that lacks the test of the removed marker
ArtifactThrowsIgnoringRemoved(json) ==
    \/ json.isNull
    \/ json.betas.t # "array"
    \/ json.channelShares.t # "array"

\* whether the artifact branch throws before `model` is assigned: the removed
\* marker, a property read of null, or an index into a missing array
ArtifactThrows(json) ==
    \/ ~json.isNull /\ Truthy(json.removed)
    \/ json.isNull
    \/ json.betas.t # "array"
    \/ json.channelShares.t # "array"

\* whether the adopted model goes through the best-effort metrics backfill
NeedsBackfill(m) == Len(m.metrics) = 0 \/ m.metrics[1].r2.t = "null"

\* the array e(1), ..., e(n), evaluated element by element
Array(n, e(_)) == SubSeq([i \in 1..n |-> e(i)], 1, n)

(***************************************************************************)
(* The dataset /advertising.csv: text, lines, fields                       *)
(***************************************************************************)
\* a field of a line, by what parseFloat makes of it: a decimal literal, a
\* decimal literal followed by other text, the word Infinity, other text, or
\* nothing
Tok(i) == [t |-> "dec", v |-> Num(i)]

TokPrefix(i) == [t |-> "dectext", v |-> Num(i)]

TokInfinity == [t |-> "infinity", v |-> Inf(1)]

TokText == [t |-> "text", v |-> NaN]

TokEmpty == [t |-> "empty", v |-> NaN]

\* parseFloat(field)
ParseFloat(tok) ==
    CASE tok.t = "dec" -> tok.v
      [] tok.t = "dectext" -> tok.v
      [] tok.t = "infinity" -> Inf(1)
      [] tok.t = "text" -> NaN
      [] tok.t = "empty" -> NaN

\* a line (the sequence of its comma-separated fields) that trims to ""
IsBlank(line) == line = <<TokEmpty>>

\* txt.split(/\r?\n/).map(trim).filter(l => l.length > 0)
NonBlankLines(txt) == SelectSeq(txt, LAMBDA l : ~IsBlank(l))

\* lines.slice(1).map(l => l.split(',').map(v => parseFloat(v)))
ParseRows(lines) ==
    Array(Len(lines) - 1,
          LAMBDA i : Array(Len(lines[i + 1]), LAMBDA j : ParseFloat(lines[i + 1][j])))

\* the fit loop's test of a row: not (r.length < 4 || r.some(isNaN))
RowAccepted(r) == ~(Len(r) < 4 \/ \E j \in 1..Len(r) : IsNaN(r[j]))

(***************************************************************************)
(* Linear algebra primitives                                               *)
(***************************************************************************)
RECURSIVE SumFrom(_, _, _)
SumFrom(s, i, acc) ==
    IF i > Len(s) THEN acc ELSE SumFrom(s, i + 1, NumAdd(acc, s[i]))

\* s.reduce((a, b) => a + b, 0)
Sum(s) == SumFrom(s, 1, Num(0))

\* A[i][j], counted from 1; an element past the end of a row is undefined and
\* makes NaN of the arithmetic it enters
At(A, i, j) == IF j <= Len(A[i]) THEN A[i][j] ELSE NaN

\* transpose(A)
Transpose(A) == Array(Len(A[1]), LAMBDA i : Array(Len(A), LAMBDA r : At(A, r, i)))

RECURSIVE DotFrom(_, _, _, _, _, _)
DotFrom(A, B, i, j, k, acc) ==
    IF k > Len(B) THEN acc
    ELSE DotFrom(A, B, i, j, k + 1, NumAdd(acc, NumMul(At(A, i, k), B[k][j])))

\* matMul(A, B): m = A.length, p = B[0].length, n = B.length
MatMul(A, B) ==
    Array(Len(A), LAMBDA i : Array(Len(B[1]), LAMBDA j : DotFrom(A, B, i, j, 1, Num(0))))

\* the exponent of the pivot threshold 1e-12 of invertMatrix
PivotEpsExp == 12

RECURSIVE DivPow10(_, _)
DivPow10(x, e) == IF e = 0 THEN x ELSE DivPow10(x \div 10, e - 1)

\* Math.abs(x) < 1e-12, i.e. |n| * 10^12 < d for the finite x = n / d
BelowPivotEps(x) == x.k = "num" /\ Abs(x.n) <= DivPow10(x.d - 1, PivotEpsExp)

\* an augmented matrix whose right half is twice the identity
AugmentTwice(A) ==
    Array(Len(A),
          LAMBDA i : A[i] \o Array(Len(A), LAMBDA j : IF i = j THEN Num(2) ELSE Num(0)))

\* the augmented matrix [A | I]
Augment(A) ==
    Array(Len(A),
          LAMBDA i : A[i] \o Array(Len(A), LAMBDA j : IF i = j THEN Num(1) ELSE Num(0)))

\* the pivot search: the row at or below i with the largest |M[r][i]|
RECURSIVE PivotRow(_, _, _, _)
PivotRow(M, i, r, maxRow) ==
    IF r > Len(M) THEN maxRow
    ELSE PivotRow(M, i, r + 1,
                  IF NumGt(NumAbs(M[r][i]), NumAbs(M[maxRow][i])) THEN r ELSE maxRow)

\* one elimination step on column i, given the pivot row
Eliminate(M, i, maxRow) ==
    LET S == [M EXCEPT ![i] = M[maxRow], ![maxRow] = M[i]]
        div == S[i][i]
        rowI == Array(Len(S[i]), LAMBDA j : NumDiv(S[i][j], div))
    IN  Array(Len(S),
              LAMBDA r : IF r = i THEN rowI
                         ELSE Array(Len(S[r]),
                                    LAMBDA j : NumSub(S[r][j], NumMul(S[r][i], rowI[j]))))

RECURSIVE GaussJordan(_, _)
GaussJordan(M, i) ==
    IF i > Len(M) THEN [singular |-> FALSE, M |-> M]
    ELSE LET maxRow == PivotRow(M, i, i + 1, i)
         IN  IF BelowPivotEps(NumAbs(M[maxRow][i]))
             THEN [singular |-> TRUE, M |-> M]
             ELSE GaussJordan(Eliminate(M, i, maxRow), i + 1)

\* invertMatrix(A): `singular` is the throw of 'Matrix is singular'
InvertMatrix(A) ==
    LET n == Len(A)
        res == GaussJordan(Augment(A), 1)
    IN  [singular |-> res.singular,
         inv |-> Array(n, LAMBDA r : SubSeq(res.M[r], n + 1, 2 * n))]

(***************************************************************************)
(* Metrics and the OLS fit                                                 *)
(***************************************************************************)
\* m.intercept + m.betas[0] * tv + m.betas[1] * radio + m.betas[2] * newspaper
Linear(m, tv, radio, newspaper) ==
    NumAdd(NumAdd(NumAdd(m.intercept, NumMul(m.betas[1], tv)),
                  NumMul(m.betas[2], radio)),
           NumMul(m.betas[3], newspaper))

\* Math.pow(x, 2)
Square(x) == NumMul(x, x)

\* the value or null of a `cond ? value : null`
JNumOrNull(cond, x) == IF cond THEN JNum(x) ELSE JNull

\* the column j of the rows: rows.map(r => r[j - 1])
Column(rows, j) == Array(Len(rows), LAMBDA i : rows[i][j])

\* the model's prediction on each row, the channels starting at column j
Predictions(m, rows, j) ==
    Array(Len(rows), LAMBDA i : Linear(m, rows[i][j], rows[i][j + 1], rows[i][j + 2]))

\* s.reduce((a, b) => a + b, 0) / s.length
MeanOf(s) == NumDiv(Sum(s), Num(Len(s)))

\* the residual sum of squares
SsRes(yTrue, preds) ==
    Sum(Array(Len(yTrue), LAMBDA i : Square(NumSub(yTrue[i], preds[i]))))

\* the total sum of squares about meanY
SsTot(yTrue, meanY) ==
    Sum(Array(Len(yTrue), LAMBDA i : Square(NumSub(yTrue[i], meanY))))

\* the sum of the absolute residuals
AbsSum(yTrue, preds) ==
    Sum(Array(Len(yTrue), LAMBDA i : NumAbs(NumSub(yTrue[i], preds[i]))))

\* x || 0.0000001
OrEpsilon(x) == IF IsNaN(x) \/ (x.k = "num" /\ x.n = 0) THEN Rat(1, 10000000) ELSE x

\* r2, rmse, mae, meanSales and rel_rmse_pct from the sums; cls carries the
\* classification scores
ErrorMetrics(ssRes, ssTot, absSum, n, meanY, cls) ==
    LET rmse == NumSqrt(NumDiv(ssRes, n))
    IN  Metrics(JNum(NumSub(Num(1), NumDiv(ssRes, ssTot))),
                JNum(rmse),
                JNum(NumDiv(absSum, n)),
                JNum(meanY),
                JNumOrNull(~NumEq(meanY, Num(0)), NumMul(NumDiv(rmse, meanY), Num(100))),
                cls.precision, cls.recall, cls.f1)

\* a label that is 1 at the threshold too
BinarizeAtOrAbove(v, threshold) == IF NumLt(v, threshold) THEN 0 ELSE 1

\* v > threshold ? 1 : 0
Binarize(v, threshold) == IF NumGt(v, threshold) THEN 1 ELSE 0

\* the number of rows whose prediction binarizes to p and whose outcome to t
CountBin(yTrue, preds, meanY, p, t) ==
    Cardinality({i \in 1..Len(yTrue) :
                    Binarize(preds[i], meanY) = p /\ Binarize(yTrue[i], meanY) = t})

\* f1 from precision and recall
WithF1(precision, recall) ==
    [precision |-> precision,
     recall |-> recall,
     f1 |-> JNumOrNull(/\ precision.t # "null"
                       /\ recall.t # "null"
                       /\ NumGt(NumAdd(precision.num, recall.num), Num(0)),
                       NumDiv(NumMul(NumMul(Num(2), precision.num), recall.num),
                              NumAdd(precision.num, recall.num)))]

\* precision, recall and f1 from the counts
Scores(tp, fp, fn) ==
    WithF1(JNumOrNull(tp + fp > 0, Rat(tp, IF tp + fp > 0 THEN tp + fp ELSE 1)),
           JNumOrNull(tp + fn > 0, Rat(tp, IF tp + fn > 0 THEN tp + fn ELSE 1)))

\* the classification of the rows about the threshold meanY
Classification(yTrue, preds, meanY) ==
    Scores(CountBin(yTrue, preds, meanY, 1, 1),
           CountBin(yTrue, preds, meanY, 1, 0),
           CountBin(yTrue, preds, meanY, 0, 1))

\* the metrics computeMetricsFromCSV assigns, from the outcomes, the
\* predictions and the mean outcome
CsvMetrics(yTrue, preds, meanY) ==
    ErrorMetrics(SsRes(yTrue, preds), OrEpsilon(SsTot(yTrue, meanY)),
                 AbsSum(yTrue, preds), Num(Len(yTrue)), meanY,
                 Classification(yTrue, preds, meanY))

\* computeMetricsFromCSV from the parsed rows it keeps
MetricsFromRows(m, rows) ==
    IF Len(rows) = 0 THEN <<>>
    ELSE <<CsvMetrics(Column(rows, 4), Predictions(m, rows, 1), MeanOf(Column(rows, 4)))>>

\* computeMetricsFromCSV from the non-blank lines
MetricsFromLines(m, lines) ==
    IF Len(lines) <= 1 THEN <<>>
    ELSE MetricsFromRows(m,
             SelectSeq(ParseRows(lines),
                 LAMBDA r : Len(r) >= 4 /\ ~(\E j \in 1..Len(r) : IsNaN(r[j]))))

\* the body of computeMetricsFromCSV once the text is read: <<>> when it
\* returns without assigning m.metrics, <<metrics>> when it assigns
ComputeMetrics(m, txt) == MetricsFromLines(m, NonBlankLines(txt))

\* the minimum number of accepted rows of the fit
MinRows == 10

\* the fit path leaves precision, recall and f1 out of the metrics
NoScores == [precision |-> JUndef, recall |-> JUndef, f1 |-> JUndef]

\* the in-situ (training) metrics of the fit path, from the outcomes, the
\* predictions and the mean outcome
TrainingMetrics(yTrue, preds, meanY) ==
    ErrorMetrics(SsRes(yTrue, preds), SsTot(yTrue, meanY),
                 AbsSum(yTrue, preds), Num(Len(yTrue)), meanY, NoScores)

\* the in-situ metrics of the fitted model m on the design matrix X
FitMetrics(m, X, Sales) == TrainingMetrics(Sales, Predictions(m, X, 2), MeanOf(Sales))

\* the fitted Model with its in-situ metrics
Fitted(m, X, Sales) ==
    [err |-> "", obj |-> <<[m EXCEPT !.metrics = <<FitMetrics(m, X, Sales)>>]>>]

\* the Model literal from the solution betaMat of the normal equations
FitSolution(X, Sales, channelShares, betaMat) ==
    Fitted([intercept |-> betaMat[1][1],
            betas |-> <<betaMat[2][1], betaMat[3][1], betaMat[4][1]>>,
            channelShares |-> channelShares,
            metrics |-> <<>>],
           X, Sales)

\* beta = inverse(X'X) X'y, unless the inversion throws
FitInverse(X, Sales, channelShares, XtXinv, XtY) ==
    IF XtXinv.singular THEN [err |-> "Matrix is singular", obj |-> <<>>]
    ELSE FitSolution(X, Sales, channelShares, MatMul(XtXinv.inv, XtY))

\* the normal equations from X and its transpose
FitNormal(X, Sales, channelShares, Xt) ==
    FitInverse(X, Sales, channelShares,
               InvertMatrix(MatMul(Xt, X)),
               MatMul(Xt, Array(Len(Sales), LAMBDA i : <<Sales[i]>>)))

\* the channel sums over their total
SharesOver(sumTV, sumRadio, sumNews, totalChannels) ==
    <<NumDiv(sumTV, totalChannels), NumDiv(sumRadio, totalChannels),
      NumDiv(sumNews, totalChannels)>>

\* channelShares from the three channel sums
SharesOf(sumTV, sumRadio, sumNews) ==
    SharesOver(sumTV, sumRadio, sumNews, NumAdd(NumAdd(sumTV, sumRadio), sumNews))

\* the design matrix: one row [1, TV, Radio, Newspaper] per accepted row
Design(rows) == Array(Len(rows), LAMBDA i : <<Num(1), rows[i][1], rows[i][2], rows[i][3]>>)

\* the fit from the design matrix
FitDesign(X, Sales, channelShares) == FitNormal(X, Sales, channelShares, Transpose(X))

\* a fit that asks for one accepted row fewer
FitFromRowsOneFewer(rows) ==
    IF Len(rows) < MinRows - 1 THEN [err |-> "Not enough data rows", obj |-> <<>>]
    ELSE FitDesign(Design(rows), Column(rows, 4),
                   SharesOf(Sum(Column(rows, 1)), Sum(Column(rows, 2)), Sum(Column(rows, 3))))

\* the fit from the accepted rows
FitFromRows(rows) ==
    IF Len(rows) < MinRows THEN [err |-> "Not enough data rows", obj |-> <<>>]
    ELSE FitDesign(Design(rows), Column(rows, 4),
                   SharesOf(Sum(Column(rows, 1)), Sum(Column(rows, 2)), Sum(Column(rows, 3))))

\* the fit from the non-blank lines
FitFromLines(lines) ==
    IF Len(lines) <= 1 THEN [err |-> "CSV appears empty", obj |-> <<>>]
    ELSE FitFromRows(SelectSeq(ParseRows(lines), RowAccepted))

\* the dataset branch of initModel once the text is read: `err` is the message
\* it throws ("" when it returns), `obj` the Model it assigns to the cache
FitFromText(txt) == FitFromLines(NonBlankLines(txt))

(***************************************************************************)
(* The documents the server may hold                                       *)
(***************************************************************************)
Header == <<TokText, TokText, TokText, TokText>>

Row(tv, radio, newspaper, sales) == <<Tok(tv), Tok(radio), Tok(newspaper), Tok(sales)>>

\* ten rows on the plane Sales = 1 + 2 TV + Radio
TenRows ==
    <<Row(1, 0, 0, 3), Row(0, 1, 0, 2), Row(0, 0, 1, 1), Row(1, 1, 0, 4),
      Row(1, 0, 1, 3), Row(0, 1, 1, 2), Row(1, 1, 1, 4), Row(2, 0, 0, 5),
      Row(0, 2, 0, 3), Row(0, 0, 0, 1)>>

\* a dataset the fit reproduces exactly
CsvExact == <<Header>> \o TenRows

\* eleven accepted rows off the plane, among a blank line, a short row, a row
\* with a non-numeric field and a row whose fifth field is text
CsvNoisy ==
    <<Header>> \o SubSeq(TenRows, 1, 9)
      \o <<Row(0, 0, 0, 2), <<TokEmpty>>, <<Tok(1), Tok(2), Tok(3)>>,
           <<Tok(1), TokText, Tok(0), Tok(2)>>, Row(2, 1, 0, 6),
           <<Tok(1), Tok(1), Tok(1), Tok(4), TokText>>>>

\* the empty file, the header alone, and nine accepted rows
CsvEmpty == <<<<TokEmpty>>>>

CsvHeaderOnly == <<Header, <<TokEmpty>>>>

CsvNine == <<Header>> \o SubSeq(TenRows, 1, 9) \o <<<<Tok(0), Tok(0), TokEmpty, Tok(1)>>>>

\* ten accepted rows whose Newspaper column is zero: X'X is singular
CsvSingular ==
    <<Header, Row(1, 0, 0, 3), Row(0, 1, 0, 2), Row(0, 0, 0, 1), Row(1, 1, 0, 4),
      Row(1, 0, 0, 3), Row(0, 1, 0, 2), Row(1, 1, 0, 4), Row(2, 0, 0, 5),
      Row(0, 2, 0, 3), Row(0, 0, 0, 1)>>

\* the ten rows and a row whose TV field reads Infinity
CsvInfinity == CsvExact \o <<<<TokInfinity, Tok(1), Tok(2), Tok(3)>>>>

\* ten accepted rows, one of them negative, whose spend adds up to zero
CsvZeroTotal == <<Header>> \o SubSeq(TenRows, 1, 9) \o <<Row(-16, 0, 0, -31)>>

\* ten accepted rows that all report the same Sales
CsvFlatSales ==
    <<Header, Row(1, 0, 0, 5), Row(0, 1, 0, 5), Row(0, 0, 1, 5), Row(0, 0, 0, 5),
      Row(0, 0, 0, 5), Row(0, 0, 0, 5), Row(0, 0, 0, 5), Row(0, 0, 0, 5),
      Row(0, 0, 0, 5), Row(0, 0, 0, 5)>>

\* the coefficients a well-formed artifact carries
GoodBetas == JArr(<<JNum(Num(3)), JNum(Num(4)), JNum(Num(5))>>)

GoodShares == JArr(<<JNum(Rat(1, 2)), JNum(Rat(3, 10)), JNum(Rat(1, 5))>>)

FlatMetricsRaw ==
    [EmptyMetricsRaw EXCEPT !.r2 = JNum(Rat(9, 10)), !.rmse = JNum(Num(2)),
                            !.mae = JNum(Num(1)), !.mean_sales = JNum(Num(50)),
                            !.rel_rmse_pct = JNum(Num(4))]

NestedMetricsRaw ==
    [EmptyMetricsRaw EXCEPT !.linear = [EmptyLinear EXCEPT !.rmse = JNum(Num(2))],
                            !.r2 = JNum(Rat(9, 10)), !.mean_sales = JNum(Num(50))]

DocFlat == Artifact(JUndef, JNum(Num(7)), GoodBetas, GoodShares, FlatMetricsRaw)

DocBare == Artifact(JBool(FALSE), JNum(Num(7)), GoodBetas, GoodShares, NoMetricsRaw)

DocNested == Artifact(JUndef, JNum(Num(7)), GoodBetas, GoodShares, NestedMetricsRaw)

DocRemoved == Artifact(JBool(TRUE), JNum(Num(7)), GoodBetas, GoodShares, FlatMetricsRaw)

DocNoIntercept == Artifact(JUndef, JUndef, GoodBetas, GoodShares, FlatMetricsRaw)

DocNoBetas == Artifact(JUndef, JNum(Num(7)), JArrUndef, GoodShares, FlatMetricsRaw)

DocShortBetas ==
    Artifact(JUndef, JNum(Num(7)), JArr(<<JNum(Num(3)), JNum(Num(4))>>), GoodShares,
             NoMetricsRaw)

DocTextBeta ==
    Artifact(JUndef, JStr("2"), JArr(<<JNum(Num(3)), JStr("abc"), JNum(Num(5))>>),
             GoodShares, FlatMetricsRaw)

DocNoShares == Artifact(JUndef, JNum(Num(7)), GoodBetas, JArrNull, FlatMetricsRaw)

DocNull == [DocFlat EXCEPT !.isNull = TRUE]

\* betas[0] is the literal 1e999, which the JSON parser reads as Infinity
DocHugeBeta ==
    Artifact(JUndef, JNum(Num(7)), JArr(<<JNum(Inf(1)), JNum(Num(4)), JNum(Num(5))>>),
             GoodShares, FlatMetricsRaw)

\* the coefficients and shares of the fit of CsvExact, exported without metrics
DocFitBare ==
    Artifact(JUndef, JNum(Num(1)), JArr(<<JNum(Num(2)), JNum(Num(1)), JNum(Num(0))>>),
             JArr(<<JNum(Rat(3, 8)), JNum(Rat(3, 8)), JNum(Rat(1, 4))>>), NoMetricsRaw)

\* the artifacts the server may hold
ArtifactDocs ==
    <<DocFlat, DocBare, DocNested, DocRemoved, DocNoIntercept, DocNoBetas,
      DocShortBetas, DocTextBeta, DocNoShares, DocNull, DocHugeBeta, DocFitBare>>

\* the fields of a metrics payload that may sit under `linear` or at the root
MetricFields == <<"r2", "rmse", "mae", "rel_rmse_pct", "precision", "recall", "f1">>

\* the `linear` section holding v[k] for the k-th of MetricFields
LinearSection(v) ==
    [EmptyLinear EXCEPT !.r2 = v[1], !.rmse = v[2], !.mae = v[3], !.rel_rmse_pct = v[4],
                        !.precision = v[5], !.recall = v[6], !.f1 = v[7]]

\* the payload holding v[k] for the k-th of MetricFields and mean_sales v[8],
\* all at the root
FlatPayload(v) ==
    [EmptyMetricsRaw EXCEPT !.r2 = v[1], !.rmse = v[2], !.mae = v[3],
                            !.rel_rmse_pct = v[4], !.precision = v[5], !.recall = v[6],
                            !.f1 = v[7], !.mean_sales = v[8]]

\* the same values with the fields of MetricFields under `linear`
NestedPayload(v) ==
    [EmptyMetricsRaw EXCEPT !.linear = LinearSection(v), !.mean_sales = v[8]]

\* a payload with the values n under `linear` and the values r at the root
MixedPayload(n, r) == [FlatPayload(r) EXCEPT !.linear = LinearSection(n)]

\* the value a payload gives its k-th field, and another one
Given(k) == JNum(Num(10 + k))

Other(k) == JNum(Num(20 + k))

\* only the k-th field given; every field given but the k-th, which is null
OnlyField(k) == Array(8, LAMBDA j : IF j = k THEN Given(j) ELSE JUndef)

NullField(k) == Array(8, LAMBDA j : IF j = k THEN JNull ELSE Given(j))

\* the sets of field values the payloads are written from: none given, all
\* null, all given, r2 and mean_sales alone, and one field singled out
FieldValues ==
    <<Array(8, LAMBDA j : JUndef), Array(8, LAMBDA j : JNull), Array(8, Given),
      Array(8, LAMBDA j : IF j \in {1, 8} THEN Given(j) ELSE JUndef)>>
    \o Array(8, OnlyField) \o Array(8, NullField)

\* each set of field values in the nested shape (odd places) and in the flat
\* shape (even places)
TwinPayloads ==
    Array(2 * Len(FieldValues),
          LAMBDA i : IF i % 2 = 1 THEN NestedPayload(FieldValues[(i + 1) \div 2])
                     ELSE FlatPayload(FieldValues[i \div 2]))

\* the k-th field absent, null or given under `linear`, and absent or given
\* at the root, with mean_sales given
MixedField(k, nested, root) ==
    MixedPayload(Array(8, LAMBDA j : IF j = k THEN <<JUndef, JNull, Given(k)>>[nested]
                                     ELSE JUndef),
                 Array(8, LAMBDA j : IF j = k THEN <<JUndef, Other(k)>>[root]
                                     ELSE IF j = 8 THEN Given(j) ELSE JUndef))

MixedPayloads ==
    Array(7 * 6, LAMBDA i : MixedField(((i - 1) \div 6) + 1, (((i - 1) % 6) \div 2) + 1,
                                       ((i - 1) % 2) + 1))

\* the artifacts that carry the payloads
PayloadDocs ==
    Array(Len(TwinPayloads) + Len(MixedPayloads),
          LAMBDA i : Artifact(JUndef, JNum(Num(7)), GoodBetas, GoodShares,
                              (TwinPayloads \o MixedPayloads)[i]))

\* every artifact of the model: ArtifactDocs, then PayloadDocs
Artifacts == ArtifactDocs \o PayloadDocs

\* the datasets the server may hold
CsvDocs ==
    <<CsvExact, CsvNoisy, CsvEmpty, CsvHeaderOnly, CsvNine, CsvSingular, CsvInfinity,
      CsvZeroTotal, CsvFlatSales>>

\* the rows of each dataset of CsvDocs that the fit loop accepts
AcceptedRows ==
    Array(Len(CsvDocs),
          LAMBDA d : SelectSeq(ParseRows(NonBlankLines(CsvDocs[d])), RowAccepted))

\* whether invertMatrix throws on X'X of the accepted rows of each dataset
NormalSingular ==
    Array(Len(CsvDocs),
          LAMBDA d : /\ Len(AcceptedRows[d]) > 0
                     /\ InvertMatrix(MatMul(Transpose(Design(AcceptedRows[d])),
                                            Design(AcceptedRows[d]))).singular)

\* X'X and X'y of the accepted rows of each dataset
NormalEquations ==
    Array(Len(CsvDocs),
          LAMBDA d : IF Len(AcceptedRows[d]) = 0 THEN [XtX |-> <<>>, XtY |-> <<>>]
                     ELSE [XtX |-> MatMul(Transpose(Design(AcceptedRows[d])),
                                          Design(AcceptedRows[d])),
                           XtY |-> MatMul(Transpose(Design(AcceptedRows[d])),
                                          Array(Len(AcceptedRows[d]),
                                                LAMBDA i : <<AcceptedRows[d][i][4]>>))])

\* the dataset branch of initModel on each dataset of CsvDocs
FitResults == Array(Len(CsvDocs), LAMBDA d : FitFromText(CsvDocs[d]))

\* the Model object literal of each artifact
ArtifactObjects == Array(Len(Artifacts), LAMBDA a : ArtifactObject(Artifacts[a]))

\* computeMetricsFromCSV on the object adopted from artifact a and the text of
\* dataset d (it reads the object's intercept and betas, which nothing writes
\* after the adoption)
BackfillResults ==
    Array(Len(ArtifactDocs),
          LAMBDA a : Array(Len(CsvDocs),
                           LAMBDA d : ComputeMetrics(ArtifactObjects[a], CsvDocs[d])))

(***************************************************************************)
(* The prediction service on a Model m                                     *)
(***************************************************************************)
\* a predictFromChannels that scales only the amounts above 1000
ChannelsValueAboveThousand(m, tv, radio, newspaper, inputsAreDollars) ==
    LET Scaled(x) == IF inputsAreDollars /\ NumGt(x, Num(1000))
                     THEN NumMul(x, Rat(1, 1000))
                     ELSE x
    IN  Linear(m, Scaled(tv), Scaled(radio), Scaled(newspaper))

\* predictFromChannels past its guard
ChannelsValue(m, tv, radio, newspaper, inputsAreDollars) ==
    LET scale == IF inputsAreDollars THEN Rat(1, 1000) ELSE Num(1)
    IN  Linear(m, NumMul(tv, scale), NumMul(radio, scale), NumMul(newspaper, scale))

\* a predictFromTotal that scales a total of exactly 1000 too
TotalValueFromThousand(m, totalExpense, inputsAreDollars) ==
    LET scaledTotal == IF inputsAreDollars /\ ~NumLt(totalExpense, Num(1000))
                       THEN NumDiv(totalExpense, Num(1000))
                       ELSE totalExpense
        features == Array(3, LAMBDA i : NumMul(scaledTotal, m.channelShares[i]))
    IN  ChannelsValue(m, features[1], features[2], features[3], FALSE)

\* a predictFromTotal that hands the apportioned amounts on as dollars
TotalValueScaledAgain(m, totalExpense, inputsAreDollars) ==
    LET scaledTotal == IF inputsAreDollars /\ NumGt(totalExpense, Num(1000))
                       THEN NumDiv(totalExpense, Num(1000))
                       ELSE totalExpense
        features == Array(3, LAMBDA i : NumMul(scaledTotal, m.channelShares[i]))
    IN  ChannelsValue(m, features[1], features[2], features[3], inputsAreDollars)

\* predictFromTotal past its guard
TotalValue(m, totalExpense, inputsAreDollars) ==
    LET scaledTotal == IF inputsAreDollars /\ NumGt(totalExpense, Num(1000))
                       THEN NumDiv(totalExpense, Num(1000))
                       ELSE totalExpense
        features == Array(3, LAMBDA i : NumMul(scaledTotal, m.channelShares[i]))
    IN  ChannelsValue(m, features[1], features[2], features[3], FALSE)

\* predictSingleChannel past its guard
SingleValue(m, channel, amount, inputsAreDollars) ==
    IF channel = "tv" THEN ChannelsValue(m, amount, Num(0), Num(0), inputsAreDollars)
    ELSE IF channel = "radio" THEN ChannelsValue(m, Num(0), amount, Num(0), inputsAreDollars)
    ELSE ChannelsValue(m, Num(0), Num(0), amount, inputsAreDollars)

\* the record getModelCoefficients returns
CoefficientsValue(m) ==
    [intercept |-> m.intercept, betas |-> m.betas, channelShares |-> m.channelShares]

\* the record getModelMetrics returns: model.metrics ?? the all-null default
MetricsValue(m) ==
    IF Len(m.metrics) > 0 THEN m.metrics[1]
    ELSE Metrics(JNull, JNull, JNull, JNull, JNull, JUndef, JUndef, JUndef)

(***************************************************************************)
(* The state: the module's cache slot, the Model objects, and the          *)
(* initModel calls in progress                                             *)
(***************************************************************************)
\* the number of initModel calls that may overlap in a run
NCalls == 2

Calls == 1..NCalls

\* one more call, made once the calls of Calls have settled
Late == NCalls + 1

AllCalls == 1..Late

\* the number of initModel calls in the runs that also exercise the
\* synchronous operations
NReadCalls == 1

ReadCalls == 1..NReadCalls

\* the amounts and totals the read operations are called with
Amounts == {<<0, 0, 0>>, <<500, 20, 3>>, <<1000, 2000, 3000>>}

Totals == {500, 1000, 3000}

VARIABLES
    artifact,     \* which of ArtifactDocs /model-coefs.json holds
    csv,          \* which of CsvDocs /advertising.csv holds
    model,        \* the cache slot: 0 is null, c the Model object call c built
    heap,         \* heap[c]: <<>> or <<the object call c built, as it is now>>
    pc,           \* where each initModel call stands
    result,       \* what each call settled with, as seen when it settled
    coefFetches,  \* fetches of /model-coefs.json issued so far
    csvFetches,   \* fetches of /advertising.csv issued so far
    fits,         \* OLS fits run so far
    got,          \* what each call has met on its way (history)
    obs,          \* the last predict / get operation and its outcome
    mat,          \* a call of matMul: its arguments and what it returned
    worker,       \* the Cloudflare worker handling one request
    demo,         \* the PredictionDemo component: its state and its attempt
    demoDev       \* the PredictionDemo component as listed in README.dev.md

\* the state of model.ts as initModel and the operations on the cache see it
modelVars ==
    <<artifact, csv, model, heap, pc, result, coefFetches, csvFetches, fits, got, obs>>

\* the state initModel and the operations on the cache never touch
aside == <<mat, worker, demo, demoDev>>

vars == <<modelVars, aside>>

NoResult == [ref |-> 0, snap |-> <<>>, err |-> "", cached |-> FALSE]

\* cacheAtStart: the cache slot when the call was made; rejected, resolved: the
\* calls that had rejected, resolved by then; json, text: the artifact
\* document, the dataset text of the fit branch, were delivered to the call
NoHistory ==
    [cacheAtStart |-> 0, rejected |-> {}, resolved |-> {}, json |-> FALSE, text |-> FALSE]

NoObs ==
    [op |-> "none", threw |-> FALSE, val |-> <<>>, cache |-> 0, settled |-> FALSE,
     args |-> <<>>]

\* no call of matMul
NoMat == [A |-> <<>>, B |-> <<>>, called |-> FALSE, threw |-> FALSE, C |-> <<>>]

\* the worker before any request
NoWorker ==
    [request |-> <<>>, BACKEND_URL |-> <<>>, pc |-> "none", sent |-> <<>>,
     response |-> <<>>, threw |-> FALSE]

\* the PredictionDemo component before it is mounted
NoDemo ==
    [form |-> <<>>, useServer |-> FALSE, predictROI |-> FALSE, isLoading |-> FALSE,
     prediction |-> <<>>, predictedROI |-> <<>>, metrics |-> <<>>, pc |-> "none",
     endpoint |-> "", pred |-> <<>>, toast |-> <<>>, reply |-> <<>>, init |-> "none"]

\* the PredictionDemo component of README.dev.md before it is mounted
NoDemoDev ==
    [form |-> <<>>, apiBase |-> FALSE, mode |-> "local", predictROI |-> FALSE,
     status |-> "idle", errors |-> FALSE, metrics |-> <<>>, result |-> <<>>,
     coefficients |-> <<>>, requests |-> <<>>, init |-> "none",
     cleared |-> FALSE, outcome |-> "none"]

\* the module as loaded: the cache slot null, no call made
Loaded ==
    /\ model = 0
    /\ heap = [c \in AllCalls |-> <<>>]
    /\ pc = [c \in AllCalls |-> "idle"]
    /\ result = [c \in AllCalls |-> NoResult]
    /\ coefFetches = 0
    /\ csvFetches = 0
    /\ fits = 0
    /\ got = [c \in AllCalls |-> NoHistory]
    /\ obs = NoObs

Init ==
    /\ artifact \in 1..Len(ArtifactDocs)
    /\ csv \in 1..Len(CsvDocs)
    /\ Loaded
    /\ mat = NoMat
    /\ worker = NoWorker
    /\ demo = NoDemo
    /\ demoDev = NoDemoDev

(***************************************************************************)
(* initModel, one action per stretch of code between two awaits            *)
(***************************************************************************)
FetchOutcomes == {"ok", "notok", "reject"}

Settled(c) == pc[c] \in {"resolved", "rejected"}

\* `return model`: the promise resolves with the object the slot holds now
Resolve(c, slot, objects, cached) ==
    /\ pc' = [pc EXCEPT ![c] = "resolved"]
    /\ result' = [result EXCEPT ![c] =
                    [ref |-> slot, snap |-> objects[slot], err |-> "", cached |-> cached]]

\* a throw that leaves initModel
Reject(c, msg) ==
    /\ pc' = [pc EXCEPT ![c] = "rejected"]
    /\ result' = [result EXCEPT ![c] = [NoResult EXCEPT !.err = msg]]

\* the catch of the artifact branch falls through to fetch('/advertising.csv')
FallBackToCsv(c) ==
    /\ pc' = [pc EXCEPT ![c] = "awaitCsv"]
    /\ csvFetches' = csvFetches + 1
    /\ UNCHANGED <<model, heap, result, coefFetches, fits>>

\* initModel() is called: the cached Model, or the artifact fetch is issued
Call(c) ==
    /\ pc[c] = "idle"
    /\ got' = [got EXCEPT ![c] = [NoHistory EXCEPT
                  !.cacheAtStart = model,
                  !.rejected = {d \in AllCalls : pc[d] = "rejected"},
                  !.resolved = {d \in AllCalls : pc[d] = "resolved"}]]
    /\ IF model # 0
       THEN /\ Resolve(c, model, heap, TRUE)
            /\ UNCHANGED coefFetches
       ELSE /\ pc' = [pc EXCEPT ![c] = "awaitCoef"]
            /\ coefFetches' = coefFetches + 1
            /\ UNCHANGED result
    /\ UNCHANGED <<artifact, csv, model, heap, csvFetches, fits, obs>>
    /\ UNCHANGED aside

\* the fetch of /model-coefs.json settles
CoefResponse(c, outcome) ==
    /\ pc[c] = "awaitCoef"
    /\ IF outcome = "ok"
       THEN /\ pc' = [pc EXCEPT ![c] = "awaitJson"]
            /\ UNCHANGED <<model, heap, result, coefFetches, csvFetches, fits>>
       ELSE FallBackToCsv(c)
    /\ UNCHANGED <<artifact, csv, got, obs>>
    /\ UNCHANGED aside

\* coefResp.json() settles: with the document, or with a rejection
JsonParsed(c, delivered) ==
    /\ pc[c] = "awaitJson"
    /\ got' = [got EXCEPT ![c].json = delivered]
    /\ LET json == Artifacts[artifact]
           m == ArtifactObjects[artifact]
           objects == [heap EXCEPT ![c] = <<m>>]
       IN  IF ~delivered \/ ArtifactThrows(json)
           THEN FallBackToCsv(c)
           ELSE /\ model' = c
                /\ heap' = objects
                /\ IF NeedsBackfill(m)
                   THEN /\ pc' = [pc EXCEPT ![c] = "awaitBackfill"]
                        /\ csvFetches' = csvFetches + 1
                        /\ UNCHANGED result
                   ELSE /\ Resolve(c, c, objects, FALSE)
                        /\ UNCHANGED csvFetches
                /\ UNCHANGED <<coefFetches, fits>>
    /\ UNCHANGED <<artifact, csv, obs>>
    /\ UNCHANGED aside

\* computeMetricsFromCSV: its fetch of /advertising.csv settles
BackfillResponse(c, outcome) ==
    /\ pc[c] = "awaitBackfill"
    /\ pc' = [pc EXCEPT ![c] = IF outcome = "ok" THEN "awaitBackfillText"
                                ELSE "awaitBackfillReturn"]
    /\ UNCHANGED <<artifact, csv, model, heap, result, coefFetches, csvFetches, fits,
                   got, obs>>
    /\ UNCHANGED aside

\* computeMetricsFromCSV: resp.text() settles; the metrics are written into
\* the object the call passed, whatever the cache slot holds by now
BackfillText(c, delivered) ==
    /\ pc[c] = "awaitBackfillText"
    /\ LET computed == BackfillResults[artifact][csv]
       IN  heap' = IF delivered /\ Len(computed) > 0
                   THEN [heap EXCEPT ![c] = <<[heap[c][1] EXCEPT !.metrics = computed]>>]
                   ELSE heap
    /\ pc' = [pc EXCEPT ![c] = "awaitBackfillReturn"]
    /\ UNCHANGED <<artifact, csv, model, result, coefFetches, csvFetches, fits, got, obs>>
    /\ UNCHANGED aside

\* initModel resumes after `await computeMetricsFromCSV(model)`: return model
BackfillReturn(c) ==
    /\ pc[c] = "awaitBackfillReturn"
    /\ Resolve(c, model, heap, FALSE)
    /\ UNCHANGED <<artifact, csv, model, heap, coefFetches, csvFetches, fits, got, obs>>
    /\ UNCHANGED aside

\* the fit branch: its fetch of /advertising.csv settles
CsvResponse(c, outcome) ==
    /\ pc[c] = "awaitCsv"
    /\ CASE outcome = "ok" -> pc' = [pc EXCEPT ![c] = "awaitCsvText"] /\ UNCHANGED result
         [] outcome = "notok" -> Reject(c, "Failed to fetch advertising.csv")
         [] outcome = "reject" -> Reject(c, "fetch rejected")
    /\ UNCHANGED <<artifact, csv, model, heap, coefFetches, csvFetches, fits, got, obs>>
    /\ UNCHANGED aside

\* a fit branch that assigns the cache slot before it validates the dataset
CsvTextAssignsFirst(c, delivered) ==
    /\ pc[c] = "awaitCsvText"
    /\ got' = [got EXCEPT ![c].text = delivered]
    /\ LET fit == FitResults[csv]
           partial == [intercept |-> NaN, betas |-> <<NaN, NaN, NaN>>,
                       channelShares |-> <<NaN, NaN, NaN>>, metrics |-> <<>>]
           objects == [heap EXCEPT ![c] = IF fit.err = "" THEN fit.obj ELSE <<partial>>]
       IN  IF ~delivered
           THEN Reject(c, "body rejected") /\ UNCHANGED <<model, heap, fits>>
           ELSE /\ fits' = IF fit.err \in {"", "Matrix is singular"} THEN fits + 1 ELSE fits
                /\ model' = c
                /\ heap' = objects
                /\ IF fit.err # "" THEN Reject(c, fit.err) ELSE Resolve(c, c, objects, FALSE)
    /\ UNCHANGED <<artifact, csv, coefFetches, csvFetches, obs>>
    /\ UNCHANGED aside

\* the fit branch: resp.text() settles, and the rest of initModel runs
CsvText(c, delivered) ==
    /\ pc[c] = "awaitCsvText"
    /\ got' = [got EXCEPT ![c].text = delivered]
    /\ LET fit == FitResults[csv]
           objects == [heap EXCEPT ![c] = fit.obj]
       IN  IF ~delivered
           THEN Reject(c, "body rejected") /\ UNCHANGED <<model, heap, fits>>
           ELSE /\ fits' = IF fit.err \in {"", "Matrix is singular"} THEN fits + 1 ELSE fits
                /\ IF fit.err # ""
                   THEN Reject(c, fit.err) /\ UNCHANGED <<model, heap>>
                   ELSE /\ model' = c
                        /\ heap' = objects
                        /\ Resolve(c, c, objects, FALSE)
    /\ UNCHANGED <<artifact, csv, coefFetches, csvFetches, obs>>
    /\ UNCHANGED aside

(***************************************************************************)
(* The synchronous operations on the cache                                 *)
(***************************************************************************)
\* what an operation's call leaves to observe: `cache` is the slot it found,
\* `settled` whether some initModel call had resolved by then. The operations
\* write nothing, so a run records one of them and still meets every state of
\* the cache an operation can find
Observe(op, args, threw, val) ==
    /\ obs = NoObs
    /\ obs' = [op |-> op, threw |-> threw, val |-> val, cache |-> model,
               settled |-> \E c \in AllCalls : pc[c] = "resolved", args |-> args]
    /\ UNCHANGED <<artifact, csv, model, heap, pc, result, coefFetches, csvFetches,
                   fits, got>>
    /\ UNCHANGED aside

NotInitialized == "Model not initialized"

PredictFromChannels(a, inputsAreDollars) ==
    IF model = 0
    THEN Observe("predictFromChannels", <<a, inputsAreDollars>>, TRUE, NotInitialized)
    ELSE Observe("predictFromChannels", <<a, inputsAreDollars>>, FALSE,
                 ChannelsValue(heap[model][1], Num(a[1]), Num(a[2]), Num(a[3]),
                               inputsAreDollars))

PredictFromTotal(total, inputsAreDollars) ==
    IF model = 0
    THEN Observe("predictFromTotal", <<total, inputsAreDollars>>, TRUE, NotInitialized)
    ELSE Observe("predictFromTotal", <<total, inputsAreDollars>>, FALSE,
                 TotalValue(heap[model][1], Num(total), inputsAreDollars))

PredictSingleChannel(channel, amount, inputsAreDollars) ==
    IF model = 0
    THEN Observe("predictSingleChannel", <<channel, amount, inputsAreDollars>>, TRUE,
                 NotInitialized)
    ELSE Observe("predictSingleChannel", <<channel, amount, inputsAreDollars>>, FALSE,
                 SingleValue(heap[model][1], channel, Num(amount), inputsAreDollars))

GetModelCoefficients ==
    IF model = 0
    THEN Observe("getModelCoefficients", <<>>, TRUE, NotInitialized)
    ELSE Observe("getModelCoefficients", <<>>, FALSE, CoefficientsValue(heap[model][1]))

\* a getModelMetrics that answers an empty cache with the default record
GetModelMetricsOrDefault ==
    IF model = 0
    THEN Observe("getModelMetrics", <<>>, FALSE,
                 Metrics(JNull, JNull, JNull, JNull, JNull, JUndef, JUndef, JUndef))
    ELSE Observe("getModelMetrics", <<>>, FALSE, MetricsValue(heap[model][1]))

GetModelMetrics ==
    IF model = 0
    THEN Observe("getModelMetrics", <<>>, TRUE, NotInitialized)
    ELSE Observe("getModelMetrics", <<>>, FALSE, MetricsValue(heap[model][1]))

\* the calls are made in the order of their numbers
InOrder(c) == \A d \in 1..(c - 1) : pc[d] # "idle"

\* the steps of the initModel call c after the call itself
Step(c) ==
    \/ \E outcome \in FetchOutcomes : CoefResponse(c, outcome)
    \/ \E delivered \in BOOLEAN : JsonParsed(c, delivered)
    \/ \E outcome \in FetchOutcomes : BackfillResponse(c, outcome)
    \/ \E delivered \in BOOLEAN : BackfillText(c, delivered)
    \/ BackfillReturn(c)
    \/ \E outcome \in FetchOutcomes : CsvResponse(c, outcome)
    \/ \E delivered \in BOOLEAN : CsvText(c, delivered)

\* the synchronous operations, on a few inputs each
Read ==
    \/ \E a \in Amounts, d \in BOOLEAN : PredictFromChannels(a, d)
    \/ \E t \in Totals, d \in BOOLEAN : PredictFromTotal(t, d)
    \/ \E ch \in {"tv", "radio", "newspaper"} : PredictSingleChannel(ch, 2000, TRUE)
    \/ GetModelCoefficients
    \/ GetModelMetrics

\* NCalls overlapping calls of initModel, and a later one
Next ==
    \/ \E c \in Calls : InOrder(c) /\ Call(c)
    \/ (\A d \in Calls : Settled(d)) /\ Call(Late)
    \/ \E c \in AllCalls : Step(c)

Spec == Init /\ [][Next]_vars

\* NReadCalls calls of initModel among the synchronous operations
NextReads ==
    \/ \E c \in ReadCalls : InOrder(c) /\ Call(c)
    \/ \E c \in ReadCalls : Step(c)
    \/ Read

SpecReads == Init /\ [][NextReads]_vars

\* one initModel call up to the adoption of the artifact, on every artifact
InitArtifact ==
    /\ artifact \in 1..Len(Artifacts)
    /\ csv = 1
    /\ Loaded
    /\ mat = NoMat
    /\ worker = NoWorker
    /\ demo = NoDemo
    /\ demoDev = NoDemoDev

NextArtifact ==
    \/ Call(1)
    \/ \E outcome \in FetchOutcomes : CoefResponse(1, outcome)
    \/ \E delivered \in BOOLEAN : JsonParsed(1, delivered)

SpecArtifact == InitArtifact /\ [][NextArtifact]_vars

(***************************************************************************)
(* The claims                                                              *)
(***************************************************************************)
\* C1: of two initModel calls that overlap while the cache slot is null, the
\* second joins the first: the artifact fetch, the dataset fetch and the OLS
\* fit are each performed at most once
C1_WorkAtMostOnce ==
    \A c \in Calls, d \in Calls :
        (/\ c < d
         /\ pc[d] # "idle"
         /\ got[d].cacheAtStart = 0
         /\ c \notin got[d].rejected
         /\ pc[Late] = "idle")
        => coefFetches <= 1 /\ csvFetches <= 1 /\ fits <= 1

\* C2: two initModel calls that overlap against an empty cache and both
\* resolve, resolve to equal Model values, each taken when its call resolves
C2_OverlappingCallsAgree ==
    \A c \in Calls, d \in Calls :
        (/\ c < d
         /\ got[d].cacheAtStart = 0
         /\ c \notin got[d].rejected
         /\ pc[c] = "resolved"
         /\ pc[d] = "resolved")
        => result[c].snap = result[d].snap

\* C3: when a call has rejected and no other call has populated the cache, the
\* cache slot is null and holds nothing of the rejected call; and a call made
\* after a rejection, the slot still null, does not answer from the cache:
\* every call that found the slot null has issued its own artifact fetch
C3_RejectionLeavesCacheEmpty ==
    /\ \A c \in AllCalls :
           (pc[c] = "rejected" /\ \A d \in AllCalls \ {c} : heap[d] = <<>>)
           => model = 0 /\ heap[c] = <<>>
    /\ \A d \in AllCalls :
           (pc[d] # "idle" /\ got[d].rejected # {} /\ got[d].cacheAtStart = 0)
           => /\ ~result[d].cached
              /\ coefFetches =
                     Cardinality({e \in AllCalls : pc[e] # "idle" /\ got[e].cacheAtStart = 0})

\* a call rejected on a singular matrix, the call made after it rejected on the
\* same ground, and the cache is still empty
C3_Witness ==
    \E c \in AllCalls, d \in AllCalls :
        /\ pc[c] = "rejected"
        /\ result[c].err = "Matrix is singular"
        /\ c \in got[d].rejected
        /\ pc[d] = "rejected"
        /\ result[d].err = "Matrix is singular"
        /\ model = 0

\* C4 as stated: a call that was delivered an artifact marked removed, and the
\* text of a dataset with at least 10 valid rows, resolves with the fitted Model
C4_RemovedArtifactAsStated ==
    \A c \in AllCalls :
        (/\ Truthy(ArtifactDocs[artifact].removed)
         /\ got[c].json
         /\ got[c].text
         /\ Len(AcceptedRows[csv]) >= MinRows
         /\ Settled(c))
        => pc[c] = "resolved" /\ result[c].snap = FitResults[csv].obj

\* C4: a call that was delivered an artifact marked removed never caches any
\* of it, and rejects only on the dataset; delivered the text of a dataset with
\* at least 10 valid rows whose X'X invertMatrix inverts, it resolves with the
\* fitted Model
C4_RemovedArtifactFallsBack ==
    \A c \in AllCalls :
        (Truthy(ArtifactDocs[artifact].removed) /\ got[c].json)
        => /\ heap[c] # <<>> => heap[c] = FitResults[csv].obj
           /\ pc[c] = "rejected"
              => result[c].err \in {"Failed to fetch advertising.csv", "fetch rejected",
                                    "body rejected", "CSV appears empty",
                                    "Not enough data rows", "Matrix is singular"}
           /\ (/\ got[c].text
               /\ Len(AcceptedRows[csv]) >= MinRows
               /\ ~NormalSingular[csv]
               /\ Settled(c))
              => pc[c] = "resolved" /\ result[c].snap = FitResults[csv].obj

\* a call was delivered the removed artifact and resolved with the fit of the
\* dataset, whose intercept is not the artifact's
C4_Witness ==
    \E c \in AllCalls :
        /\ Truthy(ArtifactDocs[artifact].removed)
        /\ got[c].json
        /\ pc[c] = "resolved"
        /\ model = c
        /\ result[c].snap = FitResults[csv].obj
        /\ heap[c][1].intercept # ArtifactObjects[artifact].intercept

\* C5: an operation that finds the cache slot null throws 'Model not
\* initialized', whichever of the five it is and whatever its arguments
C5_NullCacheThrows ==
    (obs.op # "none" /\ obs.cache = 0) => (obs.threw /\ obs.val = NotInitialized)

\* getModelMetrics has thrown on the null cache an initModel rejection left
C5_Witness ==
    /\ obs.op = "getModelMetrics"
    /\ obs.cache = 0
    /\ obs.threw
    /\ pc[1] = "rejected"

\* C6: an operation returns a value only if some initModel call had resolved
\* by then
C6_ValueOnlyAfterResolve ==
    (obs.op # "none" /\ ~obs.threw) => obs.settled

\* C7: once the cache slot is non-null, no step reassigns it or writes a field
\* of the Model it holds
C7_CacheImmutable ==
    [][model # 0 => (model' = model /\ heap'[model] = heap[model])]_vars

\* C8: a call that finds the cache slot non-null resolves with the cached
\* Model, and with the same Model as every initialization that resolved
\* before it
C8_LaterCallsSameModel ==
    \A d \in AllCalls :
        (pc[d] = "resolved" /\ got[d].cacheAtStart # 0)
        => /\ result[d].cached
           /\ result[d].ref = got[d].cacheAtStart
           /\ \A c \in got[d].resolved : result[d].snap = result[c].snap

\* C9: with a malformed artifact (intercept, or an entry of betas or
\* channelShares, missing or not a number) every Model a call caches is the
\* fit of the dataset and holds no NaN
C9_MalformedArtifactUnusable ==
    LET json == ArtifactDocs[artifact]
        BadArray(arr) ==
            \/ arr.t # "array"
            \/ Len(arr.a) < 3
            \/ \E i \in 1..3 : arr.a[i].t # "number"
        malformed ==
            \/ json.isNull
            \/ json.intercept.t # "number"
            \/ BadArray(json.betas)
            \/ BadArray(json.channelShares)
    IN  malformed =>
            \A c \in AllCalls :
                heap[c] # <<>> =>
                    /\ heap[c] = FitResults[csv].obj
                    /\ ~IsNaN(heap[c][1].intercept)
                    /\ \A i \in 1..3 : /\ ~IsNaN(heap[c][1].betas[i])
                                       /\ ~IsNaN(heap[c][1].channelShares[i])

\* C10: predictFromChannels(0, 0, 0, false) returns exactly the intercept of
\* the cached Model
C10_ZeroInputsGiveIntercept ==
    (/\ obs.op = "predictFromChannels"
     /\ obs.args = <<<<0, 0, 0>>, FALSE>>
     /\ ~obs.threw)
    => NumEq(obs.val, heap[obs.cache][1].intercept)

\* C11: predictFromChannels(tv, radio, newspaper, true) equals
\* predictFromChannels(tv / 1000, radio / 1000, newspaper / 1000, false), that
\* is intercept + betas[0] * tv / 1000 + betas[1] * radio / 1000 +
\* betas[2] * newspaper / 1000, whatever the size of the amounts (both sides
\* taken as exact values; a NaN equals a NaN here)
C11_DollarsScaledOnce ==
    (/\ obs.op = "predictFromChannels"
     /\ ~obs.threw
     /\ obs.args[2] = TRUE)
    => LET a == obs.args[1]
           m == heap[obs.cache][1]
           Term(i) == NumDiv(NumMul(m.betas[i], Num(a[i])), Num(1000))
       IN  /\ obs.val = ChannelsValue(m, Rat(a[1], 1000), Rat(a[2], 1000),
                                      Rat(a[3], 1000), FALSE)
           /\ obs.val = NumAdd(NumAdd(NumAdd(m.intercept, Term(1)), Term(2)), Term(3))

\* predictFromChannels(500, 20, 3, true) has returned 7 + 3 * 0.5 + 4 * 0.02 +
\* 5 * 0.003 on the Model of a well-formed artifact
C11_Witness ==
    /\ obs.op = "predictFromChannels"
    /\ obs.args = <<<<500, 20, 3>>, TRUE>>
    /\ ~obs.threw
    /\ obs.val = Rat(1719, 200)

\* C12: for T > 1000, predictFromTotal(T, true) equals
\* predictFromChannels(T * s_tv / 1000, T * s_radio / 1000, T * s_news / 1000,
\* false) on the shares of the cached Model
C12_TotalApportionedOnce ==
    (/\ obs.op = "predictFromTotal"
     /\ ~obs.threw
     /\ obs.args[2] = TRUE
     /\ obs.args[1] > 1000)
    => LET m == heap[obs.cache][1]
           Part(i) == NumDiv(NumMul(Num(obs.args[1]), m.channelShares[i]), Num(1000))
       IN  obs.val = ChannelsValue(m, Part(1), Part(2), Part(3), FALSE)

\* predictFromTotal(3000, true) has returned 7 + 3 * 1.5 + 4 * 0.9 + 5 * 0.6 on
\* the Model of a well-formed artifact
C12_Witness ==
    /\ obs.op = "predictFromTotal"
    /\ obs.args = <<3000, TRUE>>
    /\ ~obs.threw
    /\ obs.val = Rat(181, 10)


\* C13: a Model fitted from a dataset whose channel spend over the accepted
\* rows adds up to a non-zero grand total has channelShares that are each the
\* channel's sum divided by the grand total, and that add up to 1
C13_SharesSumToOne ==
    \A c \in AllCalls :
        (got[c].text /\ heap[c] # <<>>)
        => LET rows == AcceptedRows[csv]
               sums == <<Sum(Column(rows, 1)), Sum(Column(rows, 2)), Sum(Column(rows, 3))>>
               total == Sum(sums)
               shares == heap[c][1].channelShares
           IN  ~NumEq(total, Num(0))
               => /\ \A i \in 1..3 : shares[i] = NumDiv(sums[i], total)
                  /\ NumEq(Sum(shares), Num(1))

\* C14: from a dataset with ten or more accepted rows whose channel spend adds
\* up to zero, no call caches or returns a Model whose channelShares hold NaN
\* or an infinity
C14_ZeroTotalGuarded ==
    LET rows == AcceptedRows[csv]
        total == Sum(<<Sum(Column(rows, 1)), Sum(Column(rows, 2)), Sum(Column(rows, 3))>>)
    IN  (Len(rows) >= MinRows /\ NumEq(total, Num(0)))
        => \A c \in AllCalls :
               /\ (got[c].text /\ heap[c] # <<>>)
                  => \A i \in 1..3 : IsFinite(heap[c][1].channelShares[i])
               /\ (got[c].text /\ pc[c] = "resolved")
                  => \A i \in 1..3 : IsFinite(result[c].snap[1].channelShares[i])

\* C15: the rows the fit takes from the dataset it was delivered are the lines
\* after the header that have four or more fields, each parsing to a finite
\* number; no other line enters the fit's row count or the mean of Sales of
\* the Model it builds
C15_LoaderAcceptsFiniteRows ==
    \A c \in AllCalls :
        got[c].text
        => LET finite == SelectSeq(ParseRows(NonBlankLines(CsvDocs[csv])),
                                   LAMBDA r : /\ Len(r) >= 4
                                              /\ \A j \in 1..Len(r) : IsFinite(r[j]))
           IN  /\ AcceptedRows[csv] = finite
               /\ (pc[c] = "rejected" /\ result[c].err = "Not enough data rows")
                  <=> (Len(NonBlankLines(CsvDocs[csv])) > 1 /\ Len(finite) < MinRows)
               /\ heap[c] # <<>>
                  => heap[c][1].metrics[1].meanSales = JNum(MeanOf(Column(finite, 4)))

\* C16: while no call has been delivered a usable artifact and the dataset
\* holds fewer than ten accepted rows (an empty or header-only one included),
\* every call that reads the dataset rejects with 'CSV appears empty' or 'Not
\* enough data rows', no call resolves, the cache slot stays null and every
\* operation throws
C16_TooFewRowsRejects ==
    (/\ \A c \in AllCalls : got[c].json => ArtifactThrows(ArtifactDocs[artifact])
     /\ Len(AcceptedRows[csv]) < MinRows)
    => /\ model = 0
       /\ \A c \in AllCalls :
              /\ pc[c] # "resolved"
              /\ heap[c] = <<>>
              /\ (got[c].text /\ pc[c] # "awaitCsvText")
                 => /\ pc[c] = "rejected"
                    /\ result[c].err \in {"CSV appears empty", "Not enough data rows"}
       /\ obs.op # "none" => obs.threw

\* the call was delivered a removed artifact and nine rows, has rejected with
\* 'Not enough data rows', and predictFromTotal has thrown since
C16_Witness ==
    /\ ArtifactDocs[artifact] = DocRemoved
    /\ Len(AcceptedRows[csv]) = MinRows - 1
    /\ got[1].json
    /\ got[1].text
    /\ pc[1] = "rejected"
    /\ result[1].err = "Not enough data rows"
    /\ obs.op = "predictFromTotal"
    /\ obs.threw
    /\ obs.cache = 0

\* C17: in every record getModelMetrics returns once an initModel call has
\* resolved, rel_rmse_pct is null exactly when meanSales is the number 0
C17_RelRmseNullIffZeroMean ==
    (obs.op = "getModelMetrics" /\ ~obs.threw /\ obs.settled)
    => ((obs.val.rel_rmse_pct.t = "null")
        <=> (obs.val.meanSales.t = "number" /\ NumEq(obs.val.meanSales.num, Num(0))))

\* C18: a payload in the nested shape (the fields under `linear`, mean_sales
\* beside it) and the payload with the same values flat at the root normalise
\* to the same record: each field the value given, or null if none or null is
\* given
C18_NestedAndFlatAgree ==
    \A c \in AllCalls :
        (/\ heap[c] # <<>>
         /\ got[c].json
         /\ artifact - Len(ArtifactDocs) \in 1..Len(TwinPayloads))
        => LET i == artifact - Len(ArtifactDocs)
               twin == Len(ArtifactDocs) + (IF i % 2 = 1 THEN i + 1 ELSE i - 1)
               v == FieldValues[(i + 1) \div 2]
           IN  /\ heap[c][1].metrics = ArtifactObjects[twin].metrics
               /\ heap[c][1].metrics =
                      <<Metrics(Coalesce(v[1], JNull), Coalesce(v[2], JNull),
                                Coalesce(v[3], JNull), Coalesce(v[8], JNull),
                                Coalesce(v[4], JNull), Coalesce(v[5], JNull),
                                Coalesce(v[6], JNull), Coalesce(v[7], JNull))>>

\* the call has adopted the artifact {linear: {r2: 11}, mean_sales: 18} with
\* r2 = 11 and meanSales = 18
C18_Witness ==
    /\ Artifacts[artifact].metrics = NestedPayload(FieldValues[4])
    /\ got[1].json
    /\ heap[1] # <<>>
    /\ heap[1][1].metrics[1].r2 = Given(1)
    /\ heap[1][1].metrics[1].meanSales = Given(8)
    /\ heap[1][1].metrics[1].rmse = JNull

\* C19: when the payload has a `linear` section, each of r2, rmse, mae,
\* rel_rmse_pct, precision, recall and f1 of the normalised record is the value
\* under `linear` if one is given there, else the value at the root, and null
\* only if neither is given
C19_FieldByFieldFallback ==
    \A c \in AllCalls :
        (/\ heap[c] # <<>>
         /\ got[c].json
         /\ Artifacts[artifact].metrics.t = "object"
         /\ Artifacts[artifact].metrics.linear.t = "object")
        => LET raw == Artifacts[artifact].metrics
           IN  \A k \in 1..Len(MetricFields) :
                   heap[c][1].metrics[1][MetricFields[k]] =
                       Coalesce(raw.linear[MetricFields[k]],
                                Coalesce(raw[MetricFields[k]], JNull))

\* C20: a call that has adopted an artifact without metrics, or with a null
\* r2, never rejects and never reads the dataset for a fit; it resolves with
\* the artifact's intercept, betas and channelShares, and with the metrics
\* the artifact gave or the ones the backfill computed
C20_BackfillNeverFails ==
    \A c \in AllCalls :
        (/\ got[c].json
         /\ ~ArtifactThrows(Artifacts[artifact])
         /\ NeedsBackfill(ArtifactObjects[artifact]))
        => /\ pc[c] \in {"awaitBackfill", "awaitBackfillText", "awaitBackfillReturn",
                         "resolved"}
           /\ ~got[c].text
           /\ pc[c] = "resolved"
              => /\ result[c].snap[1].intercept = ArtifactObjects[artifact].intercept
                 /\ result[c].snap[1].betas = ArtifactObjects[artifact].betas
                 /\ result[c].snap[1].channelShares = ArtifactObjects[artifact].channelShares
                 /\ result[c].snap[1].metrics \in
                        {ArtifactObjects[artifact].metrics, BackfillResults[artifact][csv]}

\* C21: wherever metrics are computed over outcomes whose sum of squared
\* deviations from the mean is zero (in the fit, or by the backfill), r2 is
\* 1 - ssRes / 1e-7 and not the result of a division by zero
C21_EpsilonForZeroSsTot ==
    \A c \in AllCalls :
        (/\ heap[c] # <<>>
         /\ Len(AcceptedRows[csv]) > 0
         /\ \/ got[c].text
            \/ got[c].json /\ heap[c][1].metrics # ArtifactObjects[artifact].metrics
         /\ NumEq(SsTot(Column(AcceptedRows[csv], 4), MeanOf(Column(AcceptedRows[csv], 4))),
                  Num(0)))
        => LET yTrue == Column(AcceptedRows[csv], 4)
               preds == Predictions(heap[c][1], AcceptedRows[csv], 1)
               r2 == heap[c][1].metrics[1].r2
           IN  /\ r2.t = "number"
               /\ r2.num = NumSub(Num(1), NumDiv(SsRes(yTrue, preds), Rat(1, 10000000)))

\* for artifact a and dataset d: the rows whose prediction and whose outcome
\* are greater than the mean outcome, counted from the definition of the labels
LabelCounts ==
    Array(Len(ArtifactDocs),
          LAMBDA a : Array(Len(CsvDocs),
              LAMBDA d :
                  LET rows == AcceptedRows[d]
                      yTrue == Column(rows, 4)
                      preds == Predictions(ArtifactObjects[a], rows, 1)
                      meanY == MeanOf(yTrue)
                      One(v) == NumGt(v, meanY)
                  IN  [tp |-> Cardinality({i \in 1..Len(rows) :
                                              One(preds[i]) /\ One(yTrue[i])}),
                       fp |-> Cardinality({i \in 1..Len(rows) :
                                              One(preds[i]) /\ ~One(yTrue[i])}),
                       fn |-> Cardinality({i \in 1..Len(rows) :
                                              ~One(preds[i]) /\ One(yTrue[i])})]))

\* the datasets whose accepted rows hold finite numbers only
FiniteRows ==
    Array(Len(CsvDocs),
          LAMBDA d : \A i \in 1..Len(AcceptedRows[d]) :
                         \A j \in 1..4 : IsFinite(AcceptedRows[d][i][j]))

\* C22: the scores the backfill writes label a value 1 exactly when it is
\* greater than the mean outcome; with tp, fp, fn counted over the rows,
\* precision is tp/(tp+fp) or null when tp+fp = 0, recall is tp/(tp+fn) or
\* null when tp+fn = 0, f1 is 2pr/(p+r) when both are numbers of positive sum
\* and null otherwise, and every number among them lies in [0, 1]
C22_ClassificationScores ==
    \A c \in AllCalls :
        (/\ heap[c] # <<>>
         /\ ~got[c].text
         /\ heap[c][1].intercept = ArtifactObjects[artifact].intercept
         /\ heap[c][1].betas = ArtifactObjects[artifact].betas
         /\ heap[c][1].metrics # ArtifactObjects[artifact].metrics)
        => LET tp == LabelCounts[artifact][csv].tp
               fp == LabelCounts[artifact][csv].fp
               fn == LabelCounts[artifact][csv].fn
               got_ == heap[c][1].metrics[1]
               p == got_.precision
               r == got_.recall
               InUnit(v) == v.t = "null" \/ (~NumLt(v.num, Num(0)) /\ ~NumGt(v.num, Num(1))
                                             /\ IsFinite(v.num))
           IN  /\ p = (IF tp + fp > 0 THEN JNum(NumDiv(Num(tp), Num(tp + fp))) ELSE JNull)
               /\ r = (IF tp + fn > 0 THEN JNum(NumDiv(Num(tp), Num(tp + fn))) ELSE JNull)
               /\ got_.f1 = (IF p.t = "number" /\ r.t = "number"
                                /\ NumGt(NumAdd(p.num, r.num), Num(0))
                             THEN JNum(NumDiv(NumMul(Num(2), NumMul(p.num, r.num)),
                                              NumAdd(p.num, r.num)))
                             ELSE JNull)
               /\ InUnit(p) /\ InUnit(r) /\ InUnit(got_.f1)

\* the backfill has scored the artifact 7 + 3 TV + 4 Radio + 5 Newspaper on
\* the ten rows: every row is labelled 1, precision 1/2, recall 1, f1 2/3
C22_Witness ==
    /\ Artifacts[artifact] = DocBare
    /\ CsvDocs[csv] = CsvExact
    /\ heap[1] # <<>>
    /\ got[1].json
    /\ Len(heap[1][1].metrics) = 1
    /\ heap[1][1].metrics[1].recall = JNum(Num(1))
    /\ heap[1][1].metrics[1].precision.t = "number"
    /\ NumLt(heap[1][1].metrics[1].precision.num, Num(1))
    /\ heap[1][1].metrics[1].f1.t = "number"

C28_MetricsPathsAgree ==
    \A c \in AllCalls : \A d \in AllCalls :
        (/\ heap[c] # <<>> /\ got[c].text
         /\ heap[d] # <<>> /\ ~got[d].text
         /\ heap[d][1].metrics # ArtifactObjects[artifact].metrics
         /\ heap[c][1].intercept = heap[d][1].intercept
         /\ heap[c][1].betas = heap[d][1].betas)
        => /\ Len(heap[c][1].metrics) = 1
           /\ \A f \in {"r2", "rmse", "mae", "meanSales", "rel_rmse_pct", "precision",
                        "recall", "f1"} :
                  heap[c][1].metrics[1][f] = heap[d][1].metrics[1][f]

\* C29: predictFromTotal(T, flag) is the linear prediction on T apportioned by
\* channelShares when T <= 1000, whatever the flag, and for every T it is the
\* prediction on T or on T / 1000 apportioned: the total is divided by 1000
\* at most once
C29_SmallTotalsUnscaled ==
    (obs.op = "predictFromTotal" /\ ~obs.threw)
    => LET m == heap[obs.cache][1]
           T == obs.args[1]
           Apportioned(x) == Linear(m, NumMul(x, m.channelShares[1]),
                                    NumMul(x, m.channelShares[2]),
                                    NumMul(x, m.channelShares[3]))
       IN  /\ T <= 1000 => obs.val = Apportioned(Num(T))
           /\ obs.val \in {Apportioned(Num(T)), Apportioned(Rat(T, 1000))}

\* predictFromTotal(1000, true) on the fit of the ten rows: 1 + 2 * 375 + 375
C29_Witness ==
    /\ obs.op = "predictFromTotal"
    /\ obs.args = <<1000, TRUE>>
    /\ ~obs.threw
    /\ heap[obs.cache][1].channelShares = <<Rat(3, 8), Rat(3, 8), Rat(1, 4)>>
    /\ heap[obs.cache][1].intercept = Num(1)
    /\ obs.val = Num(1126)

(***************************************************************************)
(* matMul called on its own, with operands of any shapes                   *)
(***************************************************************************)
\* an r x c matrix of the numbers from, from + 1, ... row by row
Filled(r, c, from) ==
    Array(r, LAMBDA i : Array(c, LAMBDA j : Num(from + (i - 1) * c + (j - 1))))

\* the largest number of rows and of columns of an operand
MaxDim == 3

\* the operands: every shape up to MaxDim x MaxDim, two fillings of each
Operands ==
    { Filled(r, c, from) : r \in 1..MaxDim, c \in 1..MaxDim, from \in {0, 1} }

InitMatMul ==
    /\ artifact = 1
    /\ csv = 1
    /\ Loaded
    /\ \E A \in Operands, B \in Operands :
           mat = [A |-> A, B |-> B, called |-> FALSE, threw |-> FALSE, C |-> <<>>]
    /\ worker = NoWorker
    /\ demo = NoDemo
    /\ demoDev = NoDemoDev

\* matMul(A, B): the loops run over A.length, B[0].length and B.length and the
\* array built is returned; no statement of the function throws
MatMulCall ==
    /\ ~mat.called
    /\ mat' = [mat EXCEPT !.called = TRUE, !.threw = FALSE, !.C = MatMul(mat.A, mat.B)]
    /\ UNCHANGED <<modelVars, worker, demo, demoDev>>

NextMatMul == MatMulCall

SpecMatMul == InitMatMul /\ [][NextMatMul]_vars

\* C27: matMul(A, B) with cols(A) # rows(B) fails with a shape-mismatch error
\* and returns no matrix
C27_ShapeMismatchThrows ==
    (mat.called /\ Len(mat.A[1]) # Len(mat.B)) => (mat.threw /\ mat.C = <<>>)

(***************************************************************************)
(* The Cloudflare worker: handle(request)                                  *)
(* Strings are sequences of characters, so that startsWith and the         *)
(* concatenation of the target are computed as the code computes them      *)
(***************************************************************************)
\* s.startsWith(prefix)
StartsWith(str, prefix) ==
    Len(str) >= Len(prefix) /\ SubSeq(str, 1, Len(prefix)) = prefix

\* s.replace(/\/$/, ''): one slash at the end of the string is removed
StripSlash(str) ==
    IF Len(str) > 0 /\ str[Len(str)] = "/" THEN SubSeq(str, 1, Len(str) - 1) ELSE str

ApiPrefix == <<"/", "a", "p", "i", "/">>

PredictPrefix == <<"/", "p", "r", "e", "d", "i", "c", "t">>

\* the test of line 12, negated: the request is one for the backend
Proxied(path) == StartsWith(path, ApiPrefix) \/ StartsWith(path, PredictPrefix)

\* url.pathname of the requests
Paths ==
    { <<"/">>,
      <<"/", "a", "p", "i">>,
      <<"/", "a", "p", "i", "/", "x">>,
      <<"/", "a", "p", "i", "x">>,
      <<"/", "x", "/", "a", "p", "i", "/">>,
      PredictPrefix,
      PredictPrefix \o <<"/", "r", "o", "i">>,
      PredictPrefix \o <<"i", "o", "n", "s">>,
      <<"/", "P", "r", "e", "d", "i", "c", "t">> }

\* url.search of the requests
Searches == { <<>>, <<"?", "q">> }

Methods == {"GET", "HEAD", "POST"}

BackendBase == <<"h", "t", "t", "p", ":", "/", "/", "b">>

\* the global BACKEND_URL: not bound at all, or bound to a string
BackendUrls ==
    { [defined |-> FALSE, str |-> <<>>],
      [defined |-> TRUE, str |-> <<>>],
      [defined |-> TRUE, str |-> BackendBase],
      [defined |-> TRUE, str |-> BackendBase \o <<"/">>] }

\* headers.set(name, value)
SetHeader(headers, name, value) ==
    [n \in DOMAIN headers \cup {name} |-> IF n = name THEN value ELSE headers[n]]

JsonContentType ==
    [n \in {"content-type"} |-> "application/json;charset=UTF-8"]

\* what a fetch of the worker resolves with: the status and the headers of
\* the origin's or the backend's response
UpstreamResponses ==
    { [status |-> st, headers |-> h] :
        st \in {200, 500},
        h \in { JsonContentType,
                SetHeader(JsonContentType, "access-control-allow-origin", "https://site") } }

InitWorker ==
    /\ artifact = 1
    /\ csv = 1
    /\ Loaded
    /\ mat = NoMat
    /\ demo = NoDemo
    /\ demoDev = NoDemoDev
    /\ \E path \in Paths, search \in Searches, method \in Methods, b \in BackendUrls :
           worker = [request |-> [pathname |-> path, search |-> search, method |-> method],
                     BACKEND_URL |-> b, pc |-> "handle", sent |-> <<>>,
                     response |-> <<>>, threw |-> FALSE]

\* handle(request) up to its first await or its return
Handle ==
    /\ worker.pc = "handle"
    /\ LET request == worker.request
           backend == IF worker.BACKEND_URL.defined THEN worker.BACKEND_URL.str ELSE <<>>
       IN  IF ~Proxied(request.pathname)
           THEN worker' = [worker EXCEPT !.pc = "awaitFetch",
                                         !.sent = [to |-> "origin", request |-> request]]
           ELSE IF ~worker.BACKEND_URL.defined \/ backend = <<>>
           THEN worker' = [worker EXCEPT !.pc = "done",
                                         !.response = [status |-> 500,
                                                       headers |-> JsonContentType]]
           ELSE worker' = [worker EXCEPT
                    !.pc = "awaitBackend",
                    !.sent = [to |-> "backend",
                              target |-> StripSlash(backend) \o request.pathname
                                             \o request.search,
                              method |-> request.method,
                              body |-> request.method \notin {"GET", "HEAD"}]]
    /\ UNCHANGED <<modelVars, mat, demo, demoDev>>

\* return fetch(request): the promise of the fetch is the worker's answer
FetchResponse(r) ==
    /\ worker.pc = "awaitFetch"
    /\ worker' = [worker EXCEPT !.pc = "done", !.response = r]
    /\ UNCHANGED <<modelVars, mat, demo, demoDev>>

\* after await fetch(target, init): the headers are copied, the two CORS
\* headers set, and the backend's status returned with them
BackendResponse(r) ==
    /\ worker.pc = "awaitBackend"
    /\ worker' = [worker EXCEPT
           !.pc = "done",
           !.response = [status |-> r.status,
                         headers |-> SetHeader(SetHeader(r.headers,
                                                         "access-control-allow-origin", "*"),
                                               "access-control-allow-credentials", "true")]]
    /\ UNCHANGED <<modelVars, mat, demo, demoDev>>

\* either fetch rejects (network error): handle rejects with it
FetchRejects ==
    /\ worker.pc \in {"awaitFetch", "awaitBackend"}
    /\ worker' = [worker EXCEPT !.pc = "done", !.threw = TRUE]
    /\ UNCHANGED <<modelVars, mat, demo, demoDev>>

NextWorker ==
    \/ Handle
    \/ \E r \in UpstreamResponses : FetchResponse(r)
    \/ \E r \in UpstreamResponses : BackendResponse(r)
    \/ FetchRejects

SpecWorker == InitWorker /\ [][NextWorker]_vars

\* C26: a request is forwarded to BACKEND_URL (the backend without its
\* trailing slash, then the path, then the query) exactly when its path begins
\* with /api/ or /predict, every other request is passed through unchanged,
\* and every response to a request with such a path, the one that reports a
\* missing BACKEND_URL included, carries access-control-allow-origin: *
C26_ProxyWithCors ==
    LET request == worker.request
    IN  /\ (worker.pc \in {"awaitFetch", "awaitBackend"})
           => IF Proxied(request.pathname)
              THEN /\ worker.sent.to = "backend"
                   /\ worker.sent.target
                        = StripSlash(worker.BACKEND_URL.str) \o request.pathname
                            \o request.search
              ELSE worker.sent = [to |-> "origin", request |-> request]
        /\ (worker.pc = "done" /\ worker.response # <<>> /\ Proxied(request.pathname))
           => /\ "access-control-allow-origin" \in DOMAIN worker.response.headers
              /\ worker.response.headers["access-control-allow-origin"] = "*"

(***************************************************************************)
(* The PredictionDemo component (unnamed/part_000): handlePredict, the     *)
(* mode select and the effect that calls initModel on mount                *)
(***************************************************************************)
\* x != null
NotNullish(v) == v.t \notin {"undefined", "null"}

\* the truthiness of a number: NaN and 0 are falsy
NumTruthy(x) == ~IsNaN(x) /\ x # Num(0)

\* Number(json.predicted_k ?? json.predicted_k?.toString?.() ?? null)
\*   || Number(json.predicted_k === 0 ? 0 : NaN)
\* (of a nullish predicted_k the optional call gives undefined, so the chain
\* of ?? ends in null)
PredK(predicted_k) ==
    LET first == ToNumber(Coalesce(Coalesce(predicted_k, JUndef), JNull))
        second == IF predicted_k = JNum(Num(0)) THEN Num(0) ELSE NaN
    IN  IF NumTruthy(first) THEN first ELSE second

\* json.predicted_roi != null ? Number(json.predicted_roi)
\*   : (json.predicted_roi_pct != null ? Number(json.predicted_roi_pct) / 100.0 : NaN)
RoiFrac(json) ==
    IF NotNullish(json.predicted_roi) THEN ToNumber(json.predicted_roi)
    ELSE IF NotNullish(json.predicted_roi_pct)
    THEN NumDiv(ToNumber(json.predicted_roi_pct), Num(100))
    ELSE NaN

\* parseFloat(amount) || 0 of the three inputs: the defaults, and an empty form
DemoForms == { <<30000, 10000, 10000>>, <<0, 0, 0>> }

\* predicted_k of a reply: absent, null, numbers, strings, booleans
PredictedKs ==
    { JUndef, JNull, JNum(Num(0)), JNum(Num(12)), JStr("2"), JStr("abc"), JStr(""),
      JBool(TRUE), JBool(FALSE) }

\* the documents the server's endpoints answer with
DemoReplies ==
    { [predicted_k |-> k, predicted_roi |-> JUndef, predicted_roi_pct |-> JUndef,
       metrics |-> mt] : k \in PredictedKs, mt \in {JUndef, JStr("metrics")} }

\* the artifacts and datasets the component is mounted over, as indices of
\* Artifacts (with and without metrics) and of CsvDocs (the ten exact rows)
DemoArtifacts == {1, 2}

DemoDatasets == {1}

InitDemo ==
    /\ artifact \in DemoArtifacts
    /\ csv \in DemoDatasets
    /\ Loaded
    /\ mat = NoMat
    /\ worker = NoWorker
    /\ demoDev = NoDemoDev
    /\ \E form \in DemoForms :
           demo = [NoDemo EXCEPT !.form = form, !.pc = "idle", !.init = "pending"]

\* the catch of handlePredict
DemoCatch(d, msg) ==
    [d EXCEPT !.isLoading = FALSE, !.pc = "idle", !.toast = <<"error", msg>>]

\* initModel().then(...): the toast, and the metrics panel filled
MountThen ==
    /\ demo.init = "pending"
    /\ pc[1] = "resolved"
    /\ demo' = [demo EXCEPT
           !.init = "ready",
           !.metrics = IF model = 0 THEN @ ELSE <<MetricsValue(heap[model][1])>>]
    /\ UNCHANGED <<modelVars, mat, worker, demoDev>>

\* initModel().catch(...)
MountCatch ==
    /\ demo.init = "pending"
    /\ pc[1] = "rejected"
    /\ demo' = [demo EXCEPT !.init = "failed"]
    /\ UNCHANGED <<modelVars, mat, worker, demoDev>>

\* the mode select: onChange={(e) => setUseServer(e.target.value === 'server')}
SetUseServer(v) ==
    /\ demo.pc # "none"
    /\ demo.useServer # v
    /\ demo' = [demo EXCEPT !.useServer = v]
    /\ UNCHANGED <<modelVars, mat, worker, demoDev>>

\* handlePredict up to its first await, its return, or its catch; the button
\* is disabled while isLoading
HandlePredict ==
    /\ demo.pc # "none"
    /\ ~demo.isLoading
    /\ LET tvNum == demo.form[1]
           radioNum == demo.form[2]
           newspaperNum == demo.form[3]
           totalExpense == tvNum + radioNum + newspaperNum
           started == [demo EXCEPT !.isLoading = TRUE, !.prediction = <<>>,
                                   !.reply = <<>>]
       IN  IF totalExpense <= 0
           THEN demo' = [demo EXCEPT
                    !.reply = <<>>,
                    !.toast = <<"error",
                                "Please enter positive amounts for TV, Radio or Newspaper">>]
           ELSE IF demo.useServer
           THEN demo' = [started EXCEPT
                    !.pc = "awaitFetch",
                    !.endpoint = IF demo.predictROI THEN "/predict/roi/channels"
                                 ELSE "/predict/channels"]
           ELSE IF model = 0
           THEN demo' = DemoCatch(started, NotInitialized)
           ELSE demo' = [started EXCEPT
                    !.pc = "timer",
                    !.endpoint = "",
                    !.pred = <<ChannelsValue(heap[model][1], Num(tvNum), Num(radioNum),
                                             Num(newspaperNum), TRUE)>>]
    /\ UNCHANGED <<modelVars, mat, worker, demoDev>>

\* await fetch(...) settles; a response that is not ok is read as text first
DemoFetchResponse(outcome) ==
    /\ demo.pc = "awaitFetch"
    /\ demo' = CASE outcome = "ok" -> [demo EXCEPT !.pc = "awaitJson"]
                 [] outcome = "notok" -> [demo EXCEPT !.pc = "awaitText"]
                 [] outcome = "reject" -> DemoCatch(demo, "Failed to fetch")
    /\ UNCHANGED <<modelVars, mat, worker, demoDev>>

\* await resp.text() settles: throw new Error(`Server error: ...`), or its own
\* rejection, both caught
DemoTextRead ==
    /\ demo.pc = "awaitText"
    /\ demo' = DemoCatch(demo, "Server error")
    /\ UNCHANGED <<modelVars, mat, worker, demoDev>>

\* await resp.json() settles, and the rest of the server branch
DemoJson(delivered, json) ==
    /\ demo.pc = "awaitJson"
    /\ LET predK == PredK(json.predicted_k)
           roiFrac == RoiFrac(json)
           answered == [demo EXCEPT !.reply = json]
           done == [answered EXCEPT
                       !.isLoading = FALSE,
                       !.pc = "idle",
                       !.metrics = <<Coalesce(json.metrics, JNull)>>]
       IN  IF ~delivered
           THEN demo' = DemoCatch(demo, "Unexpected end of JSON input")
           ELSE IF demo.endpoint = "/predict/roi/channels"
           THEN IF IsNaN(roiFrac)
                THEN demo' = DemoCatch(answered, "Invalid ROI response from server")
                ELSE demo' = [done EXCEPT
                         !.predictedROI = <<roiFrac>>,
                         !.toast = <<"success", "Server ROI prediction completed">>]
           ELSE IF IsNaN(predK)
                THEN demo' = DemoCatch(answered, "Invalid response from prediction server")
                ELSE demo' = [done EXCEPT
                         !.prediction = <<predK>>,
                         !.toast = <<"success", "Server prediction completed">>]
    /\ UNCHANGED <<modelVars, mat, worker, demoDev>>

\* the callback of setTimeout(..., 400) of the local branch
DemoTimer ==
    /\ demo.pc = "timer"
    /\ demo' = [demo EXCEPT
           !.prediction = demo.pred,
           !.predictedROI = <<>>,
           !.metrics = IF model = 0 THEN @ ELSE <<MetricsValue(heap[model][1])>>,
           !.isLoading = FALSE,
           !.pc = "idle",
           !.pred = <<>>,
           !.toast = <<"success", "Prediction completed successfully">>]
    /\ UNCHANGED <<modelVars, mat, worker, demoDev>>

\* the component mounted: its effect calls initModel once, the user drives it
NextDemo ==
    \/ Call(1)
    \/ Step(1)
    \/ MountThen
    \/ MountCatch
    \/ \E v \in BOOLEAN : SetUseServer(v)
    \/ HandlePredict
    \/ \E outcome \in FetchOutcomes : DemoFetchResponse(outcome)
    \/ DemoTextRead
    \/ \E delivered \in BOOLEAN, json \in DemoReplies : DemoJson(delivered, json)
    \/ DemoTimer

SpecDemo == InitDemo /\ [][NextDemo]_vars

\* C24: in server mode a reply of /predict/channels whose predicted_k is
\* missing, null, or not a number ends the attempt with an error, and nothing
\* is stored as the prediction
C24_InvalidPredictionRejected ==
    (/\ demo.reply # <<>>
     /\ demo.endpoint = "/predict/channels"
     /\ demo.reply.predicted_k.t # "number")
    => /\ demo.prediction = <<>>
       /\ demo.toast # <<>>
       /\ demo.toast[1] = "error"

(***************************************************************************)
(* The PredictionDemo component as README.dev.md lists it: mode buttons    *)
(* with handleModeChange, a status, and one result object.  The fields     *)
(* cleared, outcome and stale are history: they record what happened and   *)
(* no action reads them.  The progress bar and the duration are left out.  *)
(***************************************************************************)
\* the largest number of handlePredict calls awaiting the server at once
MaxInFlight == 2

\* DEFAULT_VALUES after parseFormNumbers: tv, radio, newspaper, pricePerUnit
DevDefaultValues == <<30000, 12000, 9000, 10>>

\* the forms: the defaults, and one without any spend
DevForms == { DevDefaultValues, <<0, 0, 0, 10>> }

\* validateForm: fieldSchema.safeParse and the test of the total
DevFormValid(form) ==
    /\ \A i \in 1..3 : form[i] >= 0 /\ form[i] <= 1000000
    /\ form[4] >= 1
    /\ form[1] + form[2] + form[3] > 0

\* normalizeMetrics of the record getModelMetrics returns (an object without
\* a `linear` property): test_r2 and test_rmse are absent, so null
DevNormalizeModel(raw) ==
    [r2 |-> Coalesce(raw.r2, JNull), test_r2 |-> JNull,
     rmse |-> Coalesce(raw.rmse, JNull), test_rmse |-> JNull,
     mae |-> Coalesce(raw.mae, JNull),
     rel_rmse_pct |-> Coalesce(raw.rel_rmse_pct, JNull)]

\* normalizeMetrics of a reply's metrics: <<>> is null
DevNormalizeRaw(raw) ==
    IF raw.t # "object" THEN <<>>
    ELSE IF raw.linear.t = "object"
    THEN <<[r2 |-> Coalesce(raw.linear.r2, Coalesce(raw.r2, JNull)), test_r2 |-> JNull,
            rmse |-> Coalesce(raw.linear.rmse, Coalesce(raw.rmse, JNull)),
            test_rmse |-> JNull,
            mae |-> Coalesce(raw.linear.mae, Coalesce(raw.mae, JNull)),
            rel_rmse_pct |-> Coalesce(raw.linear.rel_rmse_pct,
                                      Coalesce(raw.rel_rmse_pct, JNull))]>>
    ELSE <<DevNormalizeModel(raw)>>

\* computeClientROI(unitsK, pricePerUnit, expense)
ComputeClientROI(unitsK, pricePerUnit, expense) ==
    LET units == NumMul(unitsK, Num(1000))
        revenue == NumMul(units, Num(pricePerUnit))
    IN  [units |-> units, revenue |-> revenue, expense |-> expense,
         roiFraction |-> IF expense = 0 THEN JNull
                         ELSE JNum(NumDiv(NumSub(revenue, Num(expense)), Num(expense)))]

\* the replies of /predict/channels
DevPredictions ==
    { [predicted_k |-> k, metrics |-> mt] :
        k \in {JUndef, JNull, JNum(Num(12)), JStr("abc")},
        mt \in {NoMetricsRaw, NestedMetricsRaw} }

\* the replies of /predict/roi/channels
DevRoiResponses ==
    { [predicted_roi |-> JNum(Rat(3, 2)), predicted_roi_pct |-> JUndef],
      [predicted_roi |-> JUndef, predicted_roi_pct |-> JNum(Num(150))],
      [predicted_roi |-> JStr("2"), predicted_roi_pct |-> JUndef],
      [predicted_roi |-> JUndef, predicted_roi_pct |-> JUndef] }

\* the artifact the component is mounted over: the one without metrics
DevArtifacts == {2}

InitDemoDev ==
    /\ artifact \in DevArtifacts
    /\ csv \in DemoDatasets
    /\ Loaded
    /\ mat = NoMat
    /\ worker = NoWorker
    /\ demo = NoDemo
    /\ \E form \in DevForms, base \in BOOLEAN :
           demoDev = [NoDemoDev EXCEPT !.form = form, !.apiBase = base,
                                       !.init = "pending"]

\* seq without its i-th element
Without(seq, i) == SubSeq(seq, 1, i - 1) \o SubSeq(seq, i + 1, Len(seq))

\* the catch of handlePredict, reached by the call that is the i-th in flight
\* (i = 0: by a call that has not awaited yet)
DevCatch(d, i) ==
    [d EXCEPT !.status = "error", !.outcome = "failed",
              !.requests = IF i = 0 THEN @ ELSE Without(@, i)]

\* the end of the try block: computeClientROI, setMetrics, setResult,
\* setStatus("success")
DevSucceed(d, i, parsed, unitsK, roiFraction, latestMetrics, stale) ==
    LET roi == ComputeClientROI(unitsK, parsed[4], parsed[1] + parsed[2] + parsed[3])
        finalRoi == Coalesce(roiFraction, Coalesce(roi.roiFraction, JNull))
    IN  [d EXCEPT
            !.metrics = latestMetrics,
            !.result = <<[unitsK |-> unitsK, roiFraction |-> finalRoi,
                          revenue |-> roi.revenue, expense |-> roi.expense,
                          units |-> roi.units,
                          channelSpend |-> SubSeq(parsed, 1, 3), stale |-> stale]>>,
            !.status = "success",
            !.outcome = "succeeded",
            !.requests = IF i = 0 THEN @ ELSE Without(@, i)]

\* initModel().then(...): metrics and coefficients of the local model
DevMountThen ==
    /\ demoDev.init = "pending"
    /\ pc[1] = "resolved"
    /\ demoDev' = [demoDev EXCEPT
           !.init = "ready",
           !.metrics = IF model = 0 THEN @
                       ELSE <<DevNormalizeModel(MetricsValue(heap[model][1]))>>,
           !.coefficients = IF model = 0 THEN @
                            ELSE <<CoefficientsValue(heap[model][1])>>]
    /\ UNCHANGED <<modelVars, mat, worker, demo>>

\* initModel().catch(...)
DevMountCatch ==
    /\ demoDev.init = "pending"
    /\ pc[1] = "rejected"
    /\ demoDev' = [demoDev EXCEPT !.init = "failed"]
    /\ UNCHANGED <<modelVars, mat, worker, demo>>

\* handleModeChange(next), and the effect on [mode] that switches the ROI
\* model off in local mode; the calls in flight are left running
HandleModeChange(next) ==
    /\ demoDev.init # "none"
    /\ demoDev' = [demoDev EXCEPT
           !.mode = next,
           !.result = <<>>,
           !.status = "idle",
           !.predictROI = IF next = "local" THEN FALSE ELSE @,
           !.requests = [i \in 1..Len(@) |-> [@[i] EXCEPT !.stale = TRUE]],
           !.cleared = TRUE,
           !.outcome = "none"]
    /\ UNCHANGED <<modelVars, mat, worker, demo>>

\* the ROI switch, disabled in local mode
SetPredictROI(checked) ==
    /\ demoDev.init # "none"
    /\ demoDev.mode # "local"
    /\ demoDev.predictROI # checked
    /\ demoDev' = [demoDev EXCEPT !.predictROI = checked]
    /\ UNCHANGED <<modelVars, mat, worker, demo>>

\* resetForm, disabled while the status is "loading"
ResetForm ==
    /\ demoDev.init # "none"
    /\ demoDev.status # "loading"
    /\ demoDev' = [demoDev EXCEPT
           !.form = DevDefaultValues,
           !.result = <<>>,
           !.errors = FALSE,
           !.status = "idle",
           !.predictROI = FALSE,
           !.outcome = "none"]
    /\ UNCHANGED <<modelVars, mat, worker, demo>>

\* handlePredict up to its first await, its return, or its catch; the button
\* is disabled while the status is "loading"
DevHandlePredict ==
    /\ demoDev.init # "none"
    /\ demoDev.status # "loading"
    /\ Len(demoDev.requests) < MaxInFlight
    /\ LET parsed == demoDev.form
           started == [demoDev EXCEPT !.errors = FALSE, !.status = "loading",
                                      !.result = <<>>, !.cleared = FALSE,
                                      !.outcome = "none"]
           pred == ChannelsValue(heap[model][1], Num(parsed[1]), Num(parsed[2]),
                                 Num(parsed[3]), TRUE)
       IN  IF ~DevFormValid(parsed)
           THEN demoDev' = [demoDev EXCEPT !.errors = TRUE]
           ELSE IF demoDev.mode = "server"
           THEN IF ~demoDev.apiBase
                THEN demoDev' = DevCatch(started, 0)
                ELSE demoDev' = [started EXCEPT
                         !.requests = Append(@, [pc |-> "awaitChannels",
                                                 predictROI |-> demoDev.predictROI,
                                                 parsed |-> parsed, unitsK |-> <<>>,
                                                 latestMetrics |-> <<>>,
                                                 stale |-> FALSE])]
           ELSE IF model = 0
           THEN demoDev' = DevCatch(started, 0)
           ELSE IF ~IsFinite(pred)
           THEN demoDev' = DevCatch(started, 0)
           ELSE demoDev' = DevSucceed(started, 0, parsed, pred, JNull,
                                      <<DevNormalizeModel(MetricsValue(heap[model][1]))>>,
                                      FALSE)
    /\ UNCHANGED <<modelVars, mat, worker, demo>>

\* requestServer: await fetch(...) settles for the i-th call in flight
DevFetchResponse(i, outcome) ==
    /\ i \in 1..Len(demoDev.requests)
    /\ demoDev.requests[i].pc \in {"awaitChannels", "awaitRoi"}
    /\ LET stage == demoDev.requests[i].pc
       IN  demoDev' =
             CASE outcome = "ok" ->
                    [demoDev EXCEPT !.requests[i].pc =
                        IF stage = "awaitChannels" THEN "awaitChannelsJson"
                        ELSE "awaitRoiJson"]
               [] outcome = "notok" ->
                    [demoDev EXCEPT !.requests[i].pc = "awaitText"]
               [] outcome = "reject" -> DevCatch(demoDev, i)
    /\ UNCHANGED <<modelVars, mat, worker, demo>>

\* requestServer: await resp.text() settles and `Server error` is thrown
DevTextRead(i) ==
    /\ i \in 1..Len(demoDev.requests)
    /\ demoDev.requests[i].pc = "awaitText"
    /\ demoDev' = DevCatch(demoDev, i)
    /\ UNCHANGED <<modelVars, mat, worker, demo>>

\* the reply of /predict/channels is parsed: the prediction is tested, and
\* the ROI is asked for or the call ends
DevPredictionParsed(i, delivered, prediction) ==
    /\ i \in 1..Len(demoDev.requests)
    /\ demoDev.requests[i].pc = "awaitChannelsJson"
    /\ LET r == demoDev.requests[i]
           predictedValue == ToNumber(prediction.predicted_k)
           latestMetrics == DevNormalizeRaw(prediction.metrics)
       IN  IF ~delivered \/ ~IsFinite(predictedValue)
           THEN demoDev' = DevCatch(demoDev, i)
           ELSE IF r.predictROI
           THEN IF ~demoDev.apiBase
                THEN demoDev' = DevCatch(demoDev, i)
                ELSE demoDev' = [demoDev EXCEPT
                         !.requests[i] = [r EXCEPT !.pc = "awaitRoi",
                                                   !.unitsK = <<predictedValue>>,
                                                   !.latestMetrics = latestMetrics]]
           ELSE demoDev' = DevSucceed(demoDev, i, r.parsed, predictedValue, JNull,
                                      latestMetrics, r.stale)
    /\ UNCHANGED <<modelVars, mat, worker, demo>>

\* the reply of /predict/roi/channels is parsed and the call ends
DevRoiParsed(i, delivered, roiResponse) ==
    /\ i \in 1..Len(demoDev.requests)
    /\ demoDev.requests[i].pc = "awaitRoiJson"
    /\ LET r == demoDev.requests[i]
           roiFraction ==
               IF roiResponse.predicted_roi.t = "number" THEN roiResponse.predicted_roi
               ELSE IF roiResponse.predicted_roi_pct.t = "number"
               THEN JNum(NumDiv(roiResponse.predicted_roi_pct.num, Num(100)))
               ELSE JNull
       IN  IF ~delivered
           THEN demoDev' = DevCatch(demoDev, i)
           ELSE demoDev' = DevSucceed(demoDev, i, r.parsed, r.unitsK[1], roiFraction,
                                      r.latestMetrics, r.stale)
    /\ UNCHANGED <<modelVars, mat, worker, demo>>

\* the component mounted: its effect calls initModel once, the user drives it
NextDemoDev ==
    \/ Call(1)
    \/ Step(1)
    \/ DevMountThen
    \/ DevMountCatch
    \/ \E next \in {"local", "server"} : HandleModeChange(next)
    \/ \E checked \in BOOLEAN : SetPredictROI(checked)
    \/ ResetForm
    \/ DevHandlePredict
    \/ \E i \in 1..MaxInFlight, outcome \in FetchOutcomes : DevFetchResponse(i, outcome)
    \/ \E i \in 1..MaxInFlight : DevTextRead(i)
    \/ \E i \in 1..MaxInFlight, delivered \in BOOLEAN, prediction \in DevPredictions :
           DevPredictionParsed(i, delivered, prediction)
    \/ \E i \in 1..MaxInFlight, delivered \in BOOLEAN, roiResponse \in DevRoiResponses :
           DevRoiParsed(i, delivered, roiResponse)

SpecDemoDev == InitDemoDev /\ [][NextDemoDev]_vars

\* C25: once a prediction attempt has failed, the failure is shown and the UI
\* holds no result (prediction or ROI) of an attempt that succeeded
C25_FailureClearsResult ==
    demoDev.outcome = "failed" => (demoDev.status = "error" /\ demoDev.result = <<>>)

\* C30: at most one prediction request is in flight; after handleModeChange
\* the result stays cleared and the status "idle" until a new prediction is
\* started; no request started before the mode change sets a result
C30_ModeChangeSupersedes ==
    /\ Len(demoDev.requests) <= 1
    /\ demoDev.cleared => (demoDev.result = <<>> /\ demoDev.status = "idle")
    /\ demoDev.result # <<>> => ~demoDev.result[1].stale
====
